---- MODULE Spec2Model ----
(***************************************************************************)
(* Model of VVM/gen_vvm.py: the opcode table, the opcode encoder, the      *)
(* writers of main's chain that emit opcodes.h, builtins.h, disassembler.h *)
(* and dispatch.h, and the dispatch engines and the disassemblers that     *)
(* these writers generate, run on instruction streams; and reflow_lines,   *)
(* which breaks every emitted line.                                        *)
(*                                                                         *)
(* A Python str is a sequence of one-character strings, so that indexing,  *)
(* slicing, split and %-formatting are modelled by what they do.  A Python *)
(* tuple or list is a sequence; index k of the source is index k+1 here.   *)
(***************************************************************************)
EXTENDS Integers, Sequences, FiniteSets, TLC

VARIABLES
  pc,             \* the writer of main's chain that is running; "done" after the last
  i,              \* entries of opcodes the running loop has handled
  opcodes_h,      \* OpcodesWriter: the enumerators and the strings emitted
  builtins_h,     \* BuiltinsWriter: per entry handled, the store_symbol calls emitted
  disassembler_h, \* DisassemblerWriter: jump table, labelled handlers, cases
  dispatch_h,     \* DispatchWriter: jump table, labelled handlers, cases
  code,           \* the instruction stream given to the generated programs
  starts,         \* where the instructions of the stream start
  thr,            \* label-threaded dispatch() running on code
  swi,            \* switch-based dispatch() running on code
  dis,            \* label-threaded disassemble() running on code
  dsw,            \* switch-based disassemble() running on code
  rf,             \* the frame of a call of reflow_lines, and what emit wrote
  chain,          \* ChainOfWriters.run on a table: next writer, files, exception
  asof            \* the last call of a generated asof function

vars ==
  <<pc, i, opcodes_h, builtins_h, disassembler_h, dispatch_h,
    code, starts, thr, swi, dis, dsw, rf, chain, asof>>

----------------------------------------------------------------------------
\* Python built-ins used by the generator

\* "".join / list concatenation of a sequence of sequences
RECURSIVE ConcatAll(_)
ConcatAll(ss) ==
  IF ss = << >> THEN << >> ELSE Head(ss) \o ConcatAll(Tail(ss))

\* a list comprehension [e(k) for k in ...], evaluated once: TLC keeps a
\* function expression unevaluated until it is made a tuple
list(f) == f \o << >>

\* p % args, for patterns whose only conversions are %s
RECURSIVE Format(_, _)
Format(p, args) ==
  IF p = << >> THEN << >>
  ELSE IF Len(p) >= 2 /\ p[1] = "%" /\ p[2] = "s"
       THEN Head(args) \o Format(SubSeq(p, 3, Len(p)), Tail(args))
       ELSE <<p[1]>> \o Format(Tail(p), args)

\* s.find(sub): the 0-based index of the first occurrence, -1 if none
find(s, sub) ==
  LET hits == {k \in 0..(Len(s) - Len(sub)) : SubSeq(s, k + 1, k + Len(sub)) = sub}
  IN IF hits = {} THEN -1 ELSE CHOOSE k \in hits : \A j \in hits : k <= j

\* s.split(sep)
RECURSIVE split(_, _)
split(s, sep) ==
  LET k == find(s, sep)
  IN IF k = -1 THEN <<s>>
     ELSE <<SubSeq(s, 1, k)>> \o split(SubSeq(s, k + Len(sep) + 1, Len(s)), sep)

\* the exceptions a dict lookup raises for a missing key, and t[0] for an
\* empty t
KeyError == <<"KeyError">>
IndexError == <<"IndexError">>
raised(v) == v \in {KeyError, IndexError}

----------------------------------------------------------------------------
\* The type registry and the type groups

\*   Empirical,   VVM,   C++
types == <<
  <<<<"I","n","t","6","4">>,     <<"i","6","4">>, <<"i","n","t","6","4","_","t">>>>,
  <<<<"F","l","o","a","t","6","4">>,   <<"f","6","4">>, <<"d","o","u","b","l","e">>>>,
  <<<<"B","o","o","l">>,      <<"b","8">>,  <<"b","o","o","l">>>>,
  <<<<"S","t","r","i","n","g">>,    <<"S">>,   <<"s","t","d",":",":","s","t","r","i","n","g">>>>,
  <<<<"C","h","a","r">>,      <<"c","8">>,  <<"c","h","a","r">>>>,
  <<<<"T","i","m","e","s","t","a","m","p">>, <<"T">>,   <<"T","i","m","e","s","t","a","m","p">>>>,
  <<<<"T","i","m","e","d","e","l","t","a">>, <<"D">>,   <<"T","i","m","e","d","e","l","t","a">>>>,
  <<<<"T","i","m","e">>,      <<"T","I">>,  <<"T","i","m","e">>>>,
  <<<<"D","a","t","e">>,      <<"D","A">>,  <<"D","a","t","e">>>> >>

integer_types == <<<<"I","n","t","6","4">>>>
float_types == <<<<"F","l","o","a","t","6","4">>>>
bool_types == <<<<"B","o","o","l">>>>
string_types == <<<<"S","t","r","i","n","g">>>>
char_types == <<<<"C","h","a","r">>>>
timestamp_types == <<<<"T","i","m","e","s","t","a","m","p">>>>
timedelta_types == <<<<"T","i","m","e","d","e","l","t","a">>>>
time_types == <<<<"T","i","m","e">>>>
date_types == <<<<"D","a","t","e">>>>
arithmetic_types == integer_types \o float_types
time_ish_types == timestamp_types \o time_types \o date_types
all_types ==
  arithmetic_types \o bool_types \o string_types \o char_types \o
  time_ish_types \o timedelta_types

----------------------------------------------------------------------------
\* The opcode table: <<Empirical name, VVM name, Empirical type, opcode arity>>

internal_opcodes == <<
  <<<< >>, <<"h","a","l","t">>,         << >>, 0>>,
  <<<< >>, <<"a","l","l","o","c">>,        << >>, 2>>,
  <<<< >>, <<"w","r","i","t","e">>,        << >>, 1>>,
  <<<< >>, <<"s","a","v","e">>,         << >>, 1>>,
  <<<< >>, <<"m","e","m","b","e","r">>,       << >>, 3>>,
  <<<< >>, <<"a","s","s","i","g","n">>,       << >>, 3>>,
  <<<< >>, <<"a","p","p","e","n","d">>,       << >>, 3>>,
  <<<< >>, <<"r","e","p","r">>,         << >>, 3>>,
  <<<< >>, <<"l","o","a","d">>,         << >>, 3>>,
  <<<< >>, <<"s","t","o","r","e">>,        << >>, 4>>,
  <<<< >>, <<"w","h","e","r","e">>,        << >>, 4>>,
  <<<< >>, <<"b","r">>,           << >>, 1>>,
  <<<< >>, <<"b","t","r","u","e">>,        << >>, 2>>,
  <<<< >>, <<"b","f","a","l","s","e">>,       << >>, 2>>,
  <<<< >>, <<"r","e","t">>,          << >>, 1>>,
  <<<< >>, <<"c","a","l","l">>,         << >>, 2>>,
  <<<< >>, <<"i","s","o","r","t">>,        << >>, 3>>,
  <<<< >>, <<"m","u","l","t","i","d","x">>,      << >>, 4>>,
  <<<< >>, <<"g","r","o","u","p">>,        << >>, 8>>,
  <<<< >>, <<"e","q","m","a","t","c","h">>,      << >>, 5>>,
  <<<< >>, <<"a","s","o","f","m","a","t","c","h">>,    << >>, 7>>,
  <<<< >>, <<"a","s","o","f","n","e","a","r">>,     << >>, 7>>,
  <<<< >>, <<"a","s","o","f","w","i","t","h","i","n">>,   << >>, 8>>,
  <<<< >>, <<"e","q","a","s","o","f","m","a","t","c","h">>,  << >>, 10>>,
  <<<< >>, <<"e","q","a","s","o","f","n","e","a","r">>,   << >>, 10>>,
  <<<< >>, <<"e","q","a","s","o","f","w","i","t","h","i","n">>, << >>, 11>>,
  <<<< >>, <<"t","a","k","e">>,         << >>, 4>>,
  <<<< >>, <<"c","o","n","c","a","t">>,       << >>, 4>>,
  <<<<"n","o","w">>, <<"n","o","w">>, <<"T","i","m","e","s","t","a","m","p">>, 1>> >>

\* for tgt in tgts: for src in srcs: for p in patterns
cast_family(tgts, srcs, patterns) ==
  ConcatAll([a \in 1..Len(tgts) |->
    ConcatAll([b \in 1..Len(srcs) |->
      [c \in 1..Len(patterns) |->
        <<tgts[a], <<"c","a","s","t">>, Format(patterns[c], <<srcs[b], tgts[a]>>), 2>>]])])

\* cast_pairs with Bool cast from the integers too
cast_pairs_bool_from_integer == <<
  <<string_types, all_types>>,
  <<integer_types, all_types>>,
  <<float_types, float_types \o integer_types \o string_types>>,
  <<char_types, char_types \o integer_types>>,
  <<bool_types, bool_types \o integer_types>>,
  <<timestamp_types, time_ish_types \o integer_types \o string_types>>,
  <<timedelta_types, timedelta_types \o integer_types \o string_types>>,
  <<time_types, timestamp_types \o time_types \o integer_types \o string_types>>,
  <<date_types, timestamp_types \o date_types \o integer_types \o string_types>> >>

\* casting operators: the (targets, sources) pairs
cast_pairs == <<
  <<string_types, all_types>>,
  <<integer_types, all_types>>,
  <<float_types, float_types \o integer_types \o string_types>>,
  <<char_types, char_types \o integer_types>>,
  <<bool_types, bool_types>>,
  <<timestamp_types, time_ish_types \o integer_types \o string_types>>,
  <<timedelta_types, timedelta_types \o integer_types \o string_types>>,
  <<time_types, timestamp_types \o time_types \o integer_types \o string_types>>,
  <<date_types, timestamp_types \o date_types \o integer_types \o string_types>> >>

cast_opcodes ==
  ConcatAll([a \in 1..Len(cast_pairs) |->
    cast_family(cast_pairs[a][1], cast_pairs[a][2], <<<<"%","s","-",">","%","s">>, <<"[","%","s","]","-",">","[","%","s","]">>>>)])

\* print_opcodes with the operand of the result not counted
print_opcodes_one_operand ==
  LET patterns == <<<<"%","s","-",">","(",")">>, <<"[","%","s","]","-",">","(",")">>>>
  IN ConcatAll([a \in 1..Len(patterns) |->
       [b \in 1..Len(all_types) |->
         <<<<"p","r","i","n","t">>, <<"p","r","i","n","t">>, Format(patterns[a], <<all_types[b]>>), 1>>]])

\* print function: for p in patterns: for t in all_types
print_opcodes ==
  LET patterns == <<<<"%","s","-",">","(",")">>, <<"[","%","s","]","-",">","(",")">>>>
  IN ConcatAll([a \in 1..Len(patterns) |->
       [b \in 1..Len(all_types) |->
         <<<<"p","r","i","n","t">>, <<"p","r","i","n","t">>, Format(patterns[a], <<all_types[b]>>), 2>>]])

\* for k, v in operators: for p in patterns: for t in ts:
\*     opcodes += [(v, k, p % (t, ..., t), arity)]     (nargs copies of t)
family(operators, patterns, ts, nargs, arity) ==
  ConcatAll([a \in 1..Len(operators) |->
    ConcatAll([b \in 1..Len(patterns) |->
      [c \in 1..Len(ts) |->
        <<operators[a][2], operators[a][1],
          Format(patterns[b], [n \in 1..nargs |-> ts[c]]), arity>>]])])

\* for k, v in operators: for p in patterns: for t1 in ts1: for t2 in ts2:
\*     opcodes += [(v, k, p % args, 3)]
\* args names the tuple formatted: 1 for t1, 2 for t2
family2(operators, patterns, ts1, ts2, args) ==
  ConcatAll([a \in 1..Len(operators) |->
    ConcatAll([b \in 1..Len(patterns) |->
      ConcatAll([c \in 1..Len(ts1) |->
        [e \in 1..Len(ts2) |->
          <<operators[a][2], operators[a][1],
            Format(patterns[b],
                   [n \in 1..Len(args) |-> <<ts1[c], ts2[e]>>[args[n]]]), 3>>]])])])

binary_patterns ==
  <<<<"(","%","s",",","%","s",")","-",">","%","s">>,     <<"(","%","s",",","[","%","s","]",")","-",">","[","%","s","]">>,
    <<"(","[","%","s","]",",","%","s",")","-",">","[","%","s","]">>, <<"(","[","%","s","]",",","[","%","s","]",")","-",">","[","%","s","]">>>>

\* unary_patterns without its array pattern
unary_patterns_scalar_only == <<<<"%","s","-",">","%","s">>>>

unary_patterns == <<<<"%","s","-",">","%","s">>, <<"[","%","s","]","-",">","[","%","s","]">>>>

operator_opcodes ==
  \* binary operators -- boolean
  family(<< <<<<"o","r">>, <<"o","r">>>>, <<<<"a","n","d">>, <<"a","n","d">>>> >>, binary_patterns, bool_types, 3, 3) \o
  \* binary operators -- integer
  family(<< <<<<"b","i","t","a","n","d">>, <<"&">>>>, <<<<"b","i","t","o","r">>, <<"|">>>>, <<<<"l","s","h","i","f","t">>, <<"<","<">>>>,
            <<<<"r","s","h","i","f","t">>, <<">",">">>>>, <<<<"m","o","d">>, <<"%">>>> >>,
         binary_patterns, integer_types, 3, 3) \o
  \* binary operators -- arithmetic
  family(<< <<<<"a","d","d">>, <<"+">>>>, <<<<"s","u","b">>, <<"-">>>>, <<<<"m","u","l">>, <<"*">>>>, <<<<"d","i","v">>, <<"/">>>> >>,
         binary_patterns, arithmetic_types, 3, 3) \o
  \* binary operators -- comparison
  family(<< <<<<"l","t">>, <<"<">>>>, <<<<"g","t">>, <<">">>>>, <<<<"e","q">>, <<"=","=">>>>, <<<<"n","e">>, <<"!","=">>>>,
            <<<<"l","t","e">>, <<"<","=">>>>, <<<<"g","t","e">>, <<">","=">>>> >>,
         <<<<"(","%","s",",","%","s",")","-",">","B","o","o","l">>,     <<"(","%","s",",","[","%","s","]",")","-",">","[","B","o","o","l","]">>,
           <<"(","[","%","s","]",",","%","s",")","-",">","[","B","o","o","l","]">>, <<"(","[","%","s","]",",","[","%","s","]",")","-",">","[","B","o","o","l","]">>>>,
         all_types, 2, 3) \o
  \* unary operators -- boolean
  family(<< <<<<"n","o","t">>, <<"n","o","t">>>> >>, unary_patterns, bool_types, 2, 2) \o
  \* unary operators -- arithmetic
  family(<< <<<<"n","e","g">>, <<"-">>>>, <<<<"p","o","s">>, <<"+">>>> >>, unary_patterns, arithmetic_types, 2, 2) \o
  \* unary operators -- floating
  family(<< <<<<"s","i","n">>, <<"s","i","n">>>>, <<<<"c","o","s">>, <<"c","o","s">>>>, <<<<"t","a","n">>, <<"t","a","n">>>>,
            <<<<"a","s","i","n">>, <<"a","s","i","n">>>>, <<<<"a","c","o","s">>, <<"a","c","o","s">>>>, <<<<"a","t","a","n">>, <<"a","t","a","n">>>>,
            <<<<"s","i","n","h">>, <<"s","i","n","h">>>>, <<<<"c","o","s","h">>, <<"c","o","s","h">>>>, <<<<"t","a","n","h">>, <<"t","a","n","h">>>>,
            <<<<"a","s","i","n","h">>, <<"a","s","i","n","h">>>>, <<<<"a","c","o","s","h">>, <<"a","c","o","s","h">>>>, <<<<"a","t","a","n","h">>, <<"a","t","a","n","h">>>> >>,
         unary_patterns, float_types, 2, 2) \o
  \* reduce aggregators
  family(<< <<<<"s","u","m">>, <<"s","u","m">>>>, <<<<"p","r","o","d">>, <<"p","r","o","d">>>> >>, <<<<"[","%","s","]","-",">","%","s">>>>,
         arithmetic_types, 2, 2) \o
  \* string concatenation
  family(<< <<<<"a","d","d">>, <<"+">>>> >>, binary_patterns, string_types, 3, 3) \o
  family(<< <<<<"s","u","m">>, <<"s","u","m">>>> >>, <<<<"[","%","s","]","-",">","%","s">>>>, string_types, 2, 2)

time_opcodes ==
  \* time arithmetic
  family(<< <<<<"s","u","b">>, <<"-">>>> >>,
         <<<<"(","%","s",",","%","s",")","-",">","T","i","m","e","d","e","l","t","a">>,     <<"(","%","s",",","[","%","s","]",")","-",">","[","T","i","m","e","d","e","l","t","a","]">>,
           <<"(","[","%","s","]",",","%","s",")","-",">","[","T","i","m","e","d","e","l","t","a","]">>, <<"(","[","%","s","]",",","[","%","s","]",")","-",">","[","T","i","m","e","d","e","l","t","a","]">>>>,
         time_ish_types, 2, 3) \o
  family2(<< <<<<"a","d","d">>, <<"+">>>>, <<<<"s","u","b">>, <<"-">>>>, <<<<"m","u","l">>, <<"*">>>>, <<<<"d","i","v">>, <<"/">>>>,
             <<<<"b","a","r">>, <<"b","a","r">>>> >>,
          binary_patterns, time_ish_types \o timedelta_types, timedelta_types,
          <<1, 2, 1>>) \o
  family2(<< <<<<"a","d","d">>, <<"+">>>>, <<<<"m","u","l">>, <<"*">>>> >>,
          binary_patterns, timedelta_types, time_ish_types,
          <<1, 2, 2>>) \o
  family2(<< <<<<"a","d","d">>, <<"+">>>> >>,
          <<<<"(","%","s",",","%","s",")","-",">","T","i","m","e","s","t","a","m","p">>,     <<"(","%","s",",","[","%","s","]",")","-",">","[","T","i","m","e","s","t","a","m","p","]">>,
            <<"(","[","%","s","]",",","%","s",")","-",">","[","T","i","m","e","s","t","a","m","p","]">>, <<"(","[","%","s","]",",","[","%","s","]",")","-",">","[","T","i","m","e","s","t","a","m","p","]">>>>,
          date_types, time_types,
          <<1, 2>>)

\* timedelta literals
units == <<<<"n","s">>, <<"u","s">>, <<"m","s">>, <<"s">>, <<"m">>, <<"h">>, <<"d">>>>

unit_opcodes ==
  [a \in 1..Len(units) |->
    <<<<"s","u","f","f","i","x">> \o units[a], <<"u","n","i","t","_">> \o units[a], <<"I","n","t","6","4","-",">","T","i","m","e","d","e","l","t","a">>, 2>>]

\* wrappers
wrapper_opcodes ==
  family(<< <<<<"l","e","n">>, <<"l","e","n">>>>, <<<<"c","o","u","n","t">>, <<"c","o","u","n","t">>>> >>, <<<<"[","%","s","]","-",">","I","n","t","6","4">>>>,
         all_types, 1, 2) \o
  family(<< <<<<"r","a","n","g","e">>, <<"r","a","n","g","e">>>> >>, <<<<"%","s","-",">","[","%","s","]">>>>, integer_types, 2, 2)

\* manually defined operators: for k, v in operators: for p in patterns:
\*     for t in all_types: opcodes += [('', k, p % t, v)]
manual_opcodes ==
  ConcatAll([b \in 1..2 |->
    [c \in 1..Len(all_types) |->
      <<<< >>, <<"d","e","l">>, Format(<<<<"%","s">>, <<"[","%","s","]">>>>[b], <<all_types[c]>>), 1>>]]) \o
  [c \in 1..Len(all_types) |->
    <<<< >>, <<"i","d","x">>, Format(<<"(","[","%","s","]",",","I","n","t","6","4",")","-",">","%","s">>, <<all_types[c], all_types[c]>>), 3>>]

_make_opcodes ==
  internal_opcodes \o cast_opcodes \o print_opcodes \o operator_opcodes \o
  time_opcodes \o unit_opcodes \o wrapper_opcodes \o manual_opcodes

opcodes == _make_opcodes

----------------------------------------------------------------------------
\* The opcode encoder

\* {t[0]: t[1] for t in types}; a later triple of the same name wins
_vvm_types ==
  [n \in {types[k][1] : k \in 1..Len(types)} |->
    LET k == CHOOSE k \in 1..Len(types) :
               /\ types[k][1] = n
               /\ \A j \in 1..Len(types) : types[j][1] = n => j <= k
    IN types[k][2]]

\* {t[0]: t[2] for t in types}
_cpp_types ==
  [n \in {types[k][1] : k \in 1..Len(types)} |->
    LET k == CHOOSE k \in 1..Len(types) :
               /\ types[k][1] = n
               /\ \A j \in 1..Len(types) : types[j][1] = n => j <= k
    IN types[k][3]]

\* get_vvm_type passing append on, instead of 'v', for the element of an array
RECURSIVE get_vvm_type_append_kept(_, _)
get_vvm_type_append_kept(t, append) ==
  IF t = << >> THEN IndexError
  ELSE IF t[1] = "[" /\ t[Len(t)] = "]"
  THEN get_vvm_type_append_kept(SubSeq(t, 2, Len(t) - 1), append)
  ELSE IF t \in DOMAIN _vvm_types THEN _vvm_types[t] \o append ELSE KeyError

\* Convert Empirical's type to VVM's type
RECURSIVE get_vvm_type(_, _)
get_vvm_type(t, append) ==
  IF t = << >> THEN IndexError
  ELSE IF t[1] = "[" /\ t[Len(t)] = "]"
  THEN get_vvm_type(SubSeq(t, 2, Len(t) - 1), <<"v">>)
  ELSE IF t \in DOMAIN _vvm_types THEN _vvm_types[t] \o append ELSE KeyError

\* opcode_suffix with '_' only in front of the first type
RECURSIVE opcode_suffix_joined(_)
opcode_suffix_joined(ps) ==
  IF ps = << >> THEN << >>
  ELSE LET v == get_vvm_type(Head(ps), <<"s">>)
           rest == opcode_suffix_joined(Tail(ps))
       IN IF raised(v) THEN v
          ELSE IF raised(rest) THEN rest
          ELSE IF rest = << >> THEN <<"_">> \o v
          ELSE <<"_">> \o v \o Tail(rest)

\* suffix += '_' + get_vvm_type(p), for p in ps; the first exception propagates
RECURSIVE opcode_suffix(_)
opcode_suffix(ps) ==
  IF ps = << >> THEN << >>
  ELSE LET v == get_vvm_type(Head(ps), <<"s">>)
           rest == opcode_suffix(Tail(ps))
       IN IF raised(v) THEN v
          ELSE IF raised(rest) THEN rest
          ELSE <<"_">> \o v \o rest

\* get_opcode taking a signature without "->" to have no parameters
get_opcode_arrow_only(func_name, type_sig) ==
  IF Len(type_sig) = 0 THEN func_name
  ELSE
    LET tys == split(type_sig, <<"-",">">>)
        params == tys[1]
        ps == IF Len(tys) < 2 THEN << >>
              ELSE IF params[1] = "(" /\ params[Len(params)] = ")"
              THEN split(SubSeq(params, 2, Len(params) - 1), <<",">>)
              ELSE <<params>>
        suffix == opcode_suffix(ps)
        target == IF func_name = <<"c","a","s","t">> THEN opcode_suffix(<<tys[2]>>) ELSE << >>
    IN IF raised(suffix) THEN suffix
       ELSE IF raised(target) THEN target
       ELSE func_name \o suffix \o target

\* Generate op code for a function name and type signature
get_opcode(func_name, type_sig) ==
  IF Len(type_sig) = 0 THEN func_name
  ELSE
    LET tys == split(type_sig, <<"-",">">>)
        params == tys[1]
        ps == IF params = << >> THEN <<params>>
              ELSE IF params[1] = "(" /\ params[Len(params)] = ")"
              THEN split(SubSeq(params, 2, Len(params) - 1), <<",">>)
              ELSE <<params>>
        suffix == IF params = << >> THEN IndexError ELSE opcode_suffix(ps)
        target == IF func_name = <<"c","a","s","t">> THEN opcode_suffix(<<tys[2]>>) ELSE << >>
    IN IF raised(suffix) THEN suffix
       ELSE IF raised(target) THEN target
       ELSE func_name \o suffix \o target

\* sep.join(ss)
RECURSIVE join(_, _)
join(sep, ss) ==
  IF ss = << >> THEN << >>
  ELSE IF Len(ss) = 1 THEN ss[1]
  ELSE ss[1] \o sep \o join(sep, Tail(ss))

\* Convert Empirical's type to s/v suffix and C++'s type
RECURSIVE get_cpp_type(_, _)
get_cpp_type(t, append) ==
  IF t[1] = "[" /\ t[Len(t)] = "]"
  THEN get_cpp_type(SubSeq(t, 2, Len(t) - 1), <<"v">>)
  ELSE IF t = <<"(",")">> THEN <<append, <<"i","n","t","6","4","_","t">>>>
  ELSE IF t \in DOMAIN _cpp_types THEN <<append, _cpp_types[t]>>
  ELSE KeyError

\* Generate C++ function call for name and type signature
get_cpp_func(func_name, type_sig) ==
  IF Len(type_sig) = 0 THEN func_name
  ELSE
    LET halves == split(type_sig, <<"-",">">>)
        params == halves[1]
        ps == IF params[1] = "(" /\ params[Len(params)] = ")"
              THEN split(SubSeq(params, 2, Len(params) - 1), <<",">>)
              ELSE <<params>>
        results == [k \in 1..Len(ps) |-> get_cpp_type(ps[k], <<"s">>)]
        ret == IF Len(halves) = 2 THEN get_cpp_type(halves[2], <<"s">>) ELSE << >>
    IN IF raised(ret) \/ \E k \in 1..Len(ps) : raised(results[k])
       THEN KeyError
       ELSE LET suffix == ConcatAll([k \in 1..Len(ps) |-> results[k][1]])
                template == join(<<","," ">>, [k \in 1..Len(ps) |-> results[k][2]]) \o
                            (IF Len(halves) = 2 THEN <<","," ">> \o ret[2] ELSE << >>)
            IN func_name \o <<"_">> \o suffix \o <<"<">> \o template \o <<">">>

\* gen_vvm_type of get_func_type
RECURSIVE gen_vvm_type(_)
gen_vvm_type(t) ==
  IF t = << >> THEN IndexError
  ELSE IF t[1] = "[" /\ t[Len(t)] = "]"
  THEN LET e == gen_vvm_type(SubSeq(t, 2, Len(t) - 1))
       IN IF raised(e) THEN e ELSE Format(<<"H","I","R",":",":","A","r","r","a","y","(","%","s",")">>, <<e>>)
  ELSE IF t \in DOMAIN _vvm_types
  THEN Format(<<"H","I","R",":",":","V","V","M","T","y","p","e","(","s","i","z","e","_","t","(","V","V","M",":",":","v","v","m","_","t","y","p","e","s",":",":","%","s","s",")",")">>, <<_vvm_types[t]>>)
  ELSE KeyError

\* the first exception in a sequence of results (<< >>: none)
first_raised(rs) ==
  LET hits == {k \in DOMAIN rs : raised(rs[k])}
  IN IF hits = {} THEN << >>
     ELSE rs[CHOOSE k \in hits : \A j \in hits : k <= j]

\* Generate compiler-friendly syntax for Empirical's type
get_func_type(type_sig) ==
  LET sigs == split(type_sig, <<"-",">">>)
      params == sigs[1]
      ps == IF Len(sigs) = 2
            THEN IF params = << >> THEN <<params>>
                 ELSE IF params[1] = "(" /\ params[Len(params)] = ")"
                 THEN split(SubSeq(params, 2, Len(params) - 1), <<",">>)
                 ELSE <<params>>
            ELSE << >>
      rettype == IF Len(sigs) = 2 THEN sigs[2] ELSE sigs[1]
      argtypes == list([k \in 1..Len(ps) |-> gen_vvm_type(ps[k])])
      rt == IF rettype # <<"(",")">> THEN gen_vvm_type(rettype) ELSE <<"H","I","R",":",":","V","o","i","d","(",")">>
      exc == first_raised(IF Len(sigs) = 2 /\ params = << >>
                          THEN <<IndexError>> ELSE Append(argtypes, rt))
  IN IF exc # << >> THEN exc
     ELSE Format(<<"{","%","s","}",","," ","%","s">>, <<join(<<","," ">>, argtypes), rt>>)

----------------------------------------------------------------------------
\* OpcodesWriter: the labels of "enum class opcodes" and of opcode_strings[],
\* in table order; the value of an enumerator is its position

opcode_labels ==
  list([k \in 1..Len(opcodes) |-> get_opcode(opcodes[k][2], opcodes[k][3])])

opcode_strings ==
  list([k \in 1..Len(opcodes) |->
         <<"\"">> \o get_opcode(opcodes[k][2], opcodes[k][3]) \o <<"\"">>])

\* opcodes::oc as a number: the position of the first enumerator named oc
\* (-1: no such enumerator)
enum_value(labels, oc) ==
  LET hits == {k \in 1..Len(labels) : labels[k] = oc}
  IN IF hits = {} THEN -1
     ELSE (CHOOSE k \in hits : \A j \in hits : k <= j) - 1

----------------------------------------------------------------------------
\* BuiltinsWriter: function traits

\* a | b on naturals
RECURSIVE BitOr(_, _)
BitOr(a, b) ==
  IF a = 0 THEN b
  ELSE IF b = 0 THEN a
  ELSE (IF a % 2 = 1 \/ b % 2 = 1 THEN 1 ELSE 0) + 2 * BitOr(a \div 2, b \div 2)

none == 0
pure == 1
transform == 2
linear == 4
autostream == 8
\* all_traits without linear
all_traits_no_linear == BitOr(pure, transform)

all_traits == BitOr(BitOr(pure, transform), linear)
io_traits == BitOr(transform, linear)
ca_traits == BitOr(pure, linear)
ra_traits == BitOr(pure, transform)

\* the override dict d of BuiltinsWriter.run
d ==
  (<<"l","o","a","d">> :> autostream) @@ (<<"s","t","o","r","e">> :> none) @@ (<<"p","r","i","n","t">> :> none) @@
  (<<"u","n","i","q","u","e">> :> ca_traits) @@ (<<"i","d","x">> :> ra_traits) @@ (<<"m","u","l","t","i","d","x">> :> ra_traits) @@
  (<<"s","o","r","t">> :> ra_traits) @@ (<<"r","a","n","g","e">> :> BitOr(all_traits, autostream)) @@
  (<<"n","o","w">> :> io_traits)

\* builtins_body testing the VVM name, o[1], instead of the Empirical name,
\* o[0]
builtins_body_name_tested(o) ==
  IF Len(o[2]) # 0
  THEN LET traits == IF o[1] \in DOMAIN d THEN d[o[1]] ELSE all_traits
           oc == get_opcode(o[2], o[3])
           ft == get_func_type(o[3])
       IN << [symbol |-> o[1], oc |-> oc, ft |-> ft, traits |-> traits] >>
  ELSE << >>

\* the body of "for o in opcodes" in BuiltinsWriter.run: the store_symbol
\* calls emitted for o (none for an empty Empirical name); oc or ft may be an
\* exception raised
builtins_body(o) ==
  IF Len(o[1]) # 0
  THEN LET traits == IF o[1] \in DOMAIN d THEN d[o[1]] ELSE all_traits
           oc == get_opcode(o[2], o[3])
           ft == get_func_type(o[3])
       IN << [symbol |-> o[1], oc |-> oc, ft |-> ft, traits |-> traits] >>
  ELSE << >>

----------------------------------------------------------------------------
\* DispatchWriter and DisassemblerWriter: the handler emitted for one entry.
\*   label    the label or the case the handler stands under
\*   halt     the handler is "return"
\*   advance  n of "ip += n"
\*   operands the offsets i+1 of the code[p + i+1] the handler reads, i in range(o[3])
\*   stream   the handler passes code to the operation
\*   func     the operation invoked (<< >>: none)
\*   skip     k of "ip += (code[p + k] >> 2)", 0 if the handler has none

\* dispatch_label with "ip_ += o[3]", the opcode word not counted
dispatch_label_short(o) ==
  LET oc == get_opcode(o[2], o[3])
  IN IF oc = <<"h","a","l","t">>
     THEN [label |-> oc, halt |-> TRUE, advance |-> 0, operands |-> << >>,
           stream |-> FALSE, func |-> << >>, skip |-> 0]
     ELSE [label |-> oc, halt |-> FALSE, advance |-> o[4],
           operands |-> list([k \in 1..o[4] |-> k]),
           stream |-> oc \in {<<"r","e","t">>, <<"c","a","l","l">>},
           func |-> get_cpp_func(o[2], o[3]), skip |-> 0]

\* DispatchWriter.run, "#ifndef _MSC_VER": the handler under the label oc
dispatch_label(o) ==
  LET oc == get_opcode(o[2], o[3])
  IN IF oc = <<"h","a","l","t">>
     THEN [label |-> oc, halt |-> TRUE, advance |-> 0, operands |-> << >>,
           stream |-> FALSE, func |-> << >>, skip |-> 0]
     ELSE [label |-> oc, halt |-> FALSE, advance |-> o[4] + 1,
           operands |-> list([k \in 1..o[4] |-> k]),
           stream |-> oc \in {<<"r","e","t">>, <<"c","a","l","l">>},
           func |-> get_cpp_func(o[2], o[3]), skip |-> 0]

\* dispatch_case with "ip_ += o[3]", the opcode word not counted
dispatch_case_short(o) ==
  LET oc == get_opcode(o[2], o[3])
  IN IF oc = <<"h","a","l","t">>
     THEN [label |-> oc, halt |-> TRUE, advance |-> 0, operands |-> << >>,
           stream |-> FALSE, func |-> << >>, skip |-> 0]
     ELSE [label |-> oc, halt |-> FALSE, advance |-> o[4],
           operands |-> list([k \in 1..o[4] |-> k]),
           stream |-> oc \in {<<"r","e","t">>, <<"c","a","l","l">>},
           func |-> get_cpp_func(o[2], o[3]), skip |-> 0]

\* DispatchWriter.run, "#else  // _MSC_VER": the handler under "case opcodes::oc"
dispatch_case(o) ==
  LET oc == get_opcode(o[2], o[3])
  IN IF oc = <<"h","a","l","t">>
     THEN [label |-> oc, halt |-> TRUE, advance |-> 0, operands |-> << >>,
           stream |-> FALSE, func |-> << >>, skip |-> 0]
     ELSE [label |-> oc, halt |-> FALSE, advance |-> o[4] + 1,
           operands |-> list([k \in 1..o[4] |-> k]),
           stream |-> oc \in {<<"r","e","t">>, <<"c","a","l","l">>},
           func |-> get_cpp_func(o[2], o[3]), skip |-> 0]

\* disassembler_label with the "ip += (code[p + o[3]] >> 2)" of call for ret too
disassembler_label_ret_skip(o) ==
  LET oc == get_opcode(o[2], o[3])
  IN IF oc = <<"h","a","l","t">>
     THEN [label |-> oc, halt |-> TRUE, advance |-> 0, operands |-> << >>,
           stream |-> FALSE, func |-> << >>, skip |-> 0]
     ELSE [label |-> oc, halt |-> FALSE, advance |-> o[4] + 1,
           operands |-> list([k \in 1..o[4] |-> k]),
           stream |-> FALSE, func |-> << >>,
           skip |-> IF oc \in {<<"r","e","t">>, <<"c","a","l","l">>} THEN o[4] ELSE 0]

\* DisassemblerWriter.run, "#ifndef _MSC_VER": the handler under the label oc
disassembler_label(o) ==
  LET oc == get_opcode(o[2], o[3])
  IN IF oc = <<"h","a","l","t">>
     THEN [label |-> oc, halt |-> TRUE, advance |-> 0, operands |-> << >>,
           stream |-> FALSE, func |-> << >>, skip |-> 0]
     ELSE [label |-> oc, halt |-> FALSE, advance |-> o[4] + 1,
           operands |-> list([k \in 1..o[4] |-> k]),
           stream |-> FALSE, func |-> << >>,
           skip |-> IF oc = <<"c","a","l","l">> THEN o[4] ELSE 0]

\* disassembler_case without the "ip += (code[p + o[3]] >> 2)" of call
disassembler_case_no_skip(o) ==
  LET oc == get_opcode(o[2], o[3])
  IN IF oc = <<"h","a","l","t">>
     THEN [label |-> oc, halt |-> TRUE, advance |-> 0, operands |-> << >>,
           stream |-> FALSE, func |-> << >>, skip |-> 0]
     ELSE [label |-> oc, halt |-> FALSE, advance |-> o[4] + 1,
           operands |-> list([k \in 1..o[4] |-> k]),
           stream |-> FALSE, func |-> << >>,
           skip |-> 0]

\* DisassemblerWriter.run, "#else  // _MSC_VER": the handler under "case opcodes::oc"
disassembler_case(o) ==
  LET oc == get_opcode(o[2], o[3])
  IN IF oc = <<"h","a","l","t">>
     THEN [label |-> oc, halt |-> TRUE, advance |-> 0, operands |-> << >>,
           stream |-> FALSE, func |-> << >>, skip |-> 0]
     ELSE [label |-> oc, halt |-> FALSE, advance |-> o[4] + 1,
           operands |-> list([k \in 1..o[4] |-> k]),
           stream |-> FALSE, func |-> << >>,
           skip |-> IF oc = <<"c","a","l","l">> THEN o[4] ELSE 0]

\* "static void* opcode_labels[] = { &&oc, ... }" of dispatch()
dispatch_jump_table ==
  list([k \in 1..Len(opcodes) |-> get_opcode(opcodes[k][2], opcodes[k][3])])

\* "static void* opcode_labels[] = { &&oc, ... }" of disassemble()
disassembler_jump_table ==
  list([k \in 1..Len(opcodes) |-> get_opcode(opcodes[k][2], opcodes[k][3])])

\* the handlers of dispatch() and of disassemble(), in the order emitted
dispatch_labels ==
  list([k \in 1..Len(opcodes) |-> dispatch_label(opcodes[k])])
dispatch_cases ==
  list([k \in 1..Len(opcodes) |-> dispatch_case(opcodes[k])])
disassembler_labels ==
  list([k \in 1..Len(opcodes) |-> disassembler_label(opcodes[k])])
disassembler_cases ==
  list([k \in 1..Len(opcodes) |-> disassembler_case(opcodes[k])])

----------------------------------------------------------------------------
\* The generated programs at run time.  A machine is
\*   [ip, halted, ub, trace, calls, p, own]
\* ip: the instruction pointer; halted: the program returned; ub: it read
\* outside the stream or jumped through no label (undefined behaviour);
\* trace: the ip values at which it decoded an opcode, in order; calls: what
\* it invoked or printed, in order; p, own: for the last handler run, the ip
\* it started at and the ip its own statements left, before the operation ran.

machine0 ==
  [ip |-> 0, halted |-> FALSE, ub |-> FALSE, trace |-> << >>, calls |-> << >>,
   p |-> 0, own |-> 0]

\* "goto *opcode_labels[code[ip]]": the handlers standing under the label
\* that the jump table holds at v
goto_label(table, handlers, v) ==
  IF v + 1 \in DOMAIN table
  THEN {k \in DOMAIN handlers : handlers[k].label = table[v + 1]}
  ELSE {}

\* "switch (opcodes(code[ip]))": the cases whose enumerator has the value v
switch_case(enum, handlers, v) ==
  IF v + 1 \in DOMAIN enum /\ enum_value(enum, enum[v + 1]) = v
  THEN {k \in DOMAIN handlers : handlers[k].label = enum[v + 1]}
  ELSE {}

\* The operations are not part of the generator.  The ones that are handed a
\* label or the stream set the instruction pointer: to the start of the
\* stream or to the next instruction; the others leave it alone.
jumps == {<<"b","r">>, <<"b","t","r","u","e">>, <<"b","f","a","l","s","e">>, <<"r","e","t">>, <<"c","a","l","l">>}

external_targets(ss, p) ==
  {0} \cup {s \in ss : s > p /\ \A r \in ss : r > p => s <= r}

external(func, own, t) == IF func \in jumps THEN t ELSE own

\* one handler b run by machine m on the stream c; t is where the operation
\* leaves the instruction pointer if it sets it
run_handler(m, c, b, t) ==
  IF b.halt
  THEN [m EXCEPT !.halted = TRUE, !.trace = Append(@, m.ip)]
  ELSE LET p == m.ip
           ip1 == p + b.advance
           reads == {p + b.operands[k] : k \in DOMAIN b.operands} \cup
                    (IF b.skip > 0 THEN {p + b.skip} ELSE {})
       IN IF \E r \in reads : r >= Len(c)
          THEN [m EXCEPT !.ub = TRUE, !.trace = Append(@, m.ip)]
          ELSE LET args == list([k \in DOMAIN b.operands |-> c[p + b.operands[k] + 1]])
                   n == IF b.skip > 0 THEN c[p + b.skip + 1] \div 4 ELSE 0
                   own == ip1 + n
               IN [ip |-> IF b.func = << >> THEN own ELSE external(b.func, own, t),
                   halted |-> FALSE, ub |-> FALSE,
                   trace |-> Append(m.trace, p),
                   calls |-> Append(m.calls,
                                    <<IF b.func = << >> THEN b.label ELSE b.func,
                                      args, b.stream, n>>),
                   p |-> p, own |-> own]

\* what a decoded value v selects in each generated program
\* (the value v at index v + 1)
threaded_targets ==
  list([k \in 1..Len(opcodes) |->
         goto_label(dispatch_jump_table, dispatch_labels, k - 1)])

switch_targets ==
  list([k \in 1..Len(opcodes) |->
         switch_case(opcode_labels, dispatch_cases, k - 1)])

disassembler_targets ==
  list([k \in 1..Len(opcodes) |->
         goto_label(disassembler_jump_table, disassembler_labels, k - 1)])

disassembler_switch_targets ==
  list([k \in 1..Len(opcodes) |->
         switch_case(opcode_labels, disassembler_cases, k - 1)])

\* one dispatch of machine m: decode the opcode at ip and run the handler it
\* selects; out of the stream, or with no handler or several, it is undefined
step(m, c, handlers, targets, t) ==
  IF m.ip >= Len(c) \/ c[m.ip + 1] + 1 \notin DOMAIN targets
  THEN [m EXCEPT !.ub = TRUE]
  ELSE LET sel == targets[c[m.ip + 1] + 1]
       IN IF Cardinality(sel) # 1 THEN [m EXCEPT !.ub = TRUE]
          ELSE run_handler(m, c, handlers[CHOOSE k \in sel : TRUE], t)

\* void dispatch(const instructions_t& code), label-threaded
dispatch_threaded(m, c, t) == step(m, c, dispatch_labels, threaded_targets, t)

\* void dispatch(const instructions_t& code), switch-based
dispatch_switch(m, c, t) == step(m, c, dispatch_cases, switch_targets, t)

\* std::string disassemble(const instructions_t& code), label-threaded
disassemble(m, c) == step(m, c, disassembler_labels, disassembler_targets, 0)

\* std::string disassemble(const instructions_t& code), switch-based
disassemble_switch(m, c) ==
  step(m, c, disassembler_cases, disassembler_switch_targets, 0)

----------------------------------------------------------------------------
\* Reflowing of emitted lines

TABSIZE == 2
MAX_COL == 80

\* a slice bound as Python normalises it for a string of length n
clamp(k, n) ==
  IF k < 0 THEN (IF k + n < 0 THEN 0 ELSE k + n)
  ELSE IF k > n THEN n ELSE k

\* str[a:b]
slice(str, a, b) == SubSeq(str, clamp(a, Len(str)) + 1, clamp(b, Len(str)))

\* str.find(ch, start, end) for a one-character ch
str_find(str, ch, start, end) ==
  LET hits == {k \in clamp(start, Len(str))..(clamp(end, Len(str)) - 1) :
                 str[k + 1] = ch}
  IN IF hits = {} THEN -1 ELSE CHOOSE k \in hits : \A j \in hits : k <= j

\* str.rfind(ch, start, end) for a one-character ch
str_rfind(str, ch, start, end) ==
  LET hits == {k \in clamp(start, Len(str))..(clamp(end, Len(str)) - 1) :
                 str[k + 1] = ch}
  IN IF hits = {} THEN -1 ELSE CHOOSE k \in hits : \A j \in hits : k >= j

\* str.count(ch) for a one-character ch
str_count(str, ch) == Cardinality({k \in 1..Len(str) : str[k] = ch})

\* " " * n
spaces(n) == [k \in 1..n |-> " "] \o << >>

\* reflow_lines, the break of one iteration: the last space within size, else
\* the first space; moved before the last quote when the text before it holds
\* an odd number of quotes
break_at(cur, size) ==
  LET r == str_rfind(cur, " ", 0, size)
      f == IF r = -1 THEN str_find(cur, " ", 0, Len(cur)) ELSE r
  IN IF str_count(slice(cur, 0, f), "\"") % 2 = 1
     THEN str_rfind(cur, "\"", 0, f) - 1
     ELSE f

\* brace_indent without the space counted after the brace
brace_indent_no_space(cur, b) ==
  LET j == str_find(cur, "{", 0, b)
      p == str_find(cur, "(", 0, b)
  IN IF j >= 0 THEN j + 1
     ELSE IF p >= 0 THEN p + 1
     ELSE 0

\* reflow_lines, after the first line: the indentation of the lines that
\* follow, from the brace or else the parenthesis of cur[:i]
brace_indent(cur, b) ==
  LET j == str_find(cur, "{", 0, b)
      p == str_find(cur, "(", 0, b)
  IN IF j >= 0 THEN j + 2
     ELSE IF p >= 0 THEN p + 1
     ELSE 0

\* reflow_lines up to the loop: the frame of a call
reflow_call(s, depth) ==
  [pc |-> "call", s |-> s, depth |-> depth, size |-> 0, cur |-> << >>,
   padding |-> << >>, lines |-> << >>, i |-> 0, written |-> << >>]

\* no call of reflow_lines
reflow_idle == [reflow_call(<< >>, 0) EXCEPT !.pc = "idle"]

\* reflow_lines from its entry to the loop, or to the return of [s]
reflow_enter(f) ==
  LET size == MAX_COL - f.depth * TABSIZE
  IN IF Len(f.s) < size
     THEN [f EXCEPT !.pc = "return", !.size = size, !.lines = <<f.s>>]
     ELSE [f EXCEPT !.pc = "while", !.size = size, !.cur = f.s]

\* one pass of "while len(cur) > size", its else clause when the test fails
reflow_while(f) ==
  IF Len(f.cur) > f.size
  THEN LET b == break_at(f.cur, f.size)
           lines == Append(f.lines, f.padding \o slice(f.cur, 0, b))
           j == IF Len(lines) = 1 THEN brace_indent(f.cur, b) ELSE 0
       IN [f EXCEPT !.lines = lines,
                    !.i = b,
                    !.size = f.size - j,
                    !.padding = IF Len(lines) = 1 THEN spaces(j) ELSE f.padding,
                    !.cur = slice(f.cur, b + 1, Len(f.cur))]
  ELSE [f EXCEPT !.pc = "return", !.lines = Append(f.lines, f.padding \o f.cur)]

\* HeaderWriter.emit: the lines written to the file
emit(f) ==
  [f EXCEPT !.pc = "emitted",
            !.written = [k \in 1..Len(f.lines) |->
                           spaces(TABSIZE * f.depth) \o f.lines[k] \o <<"\n">>]
                        \o << >>]

----------------------------------------------------------------------------
\* The chain of writers on an opcode table: what each run emits, or the
\* exception it raises

\* TypesWriter.run: the type labels and the two lines emitted from them
type_labels ==
  ConcatAll([k \in 1..Len(types) |->
               <<types[k][2] \o <<"s">>, types[k][2] \o <<"v">>>>])

type_labels_line ==
  Format(<<"e","n","u","m"," ","c","l","a","s","s"," ","v","v","m","_","t","y","p","e","s",":"," ","u","i","n","t","6","4","_","t"," ","{"," ","%","s"," ","}",";">>, <<join(<<","," ">>, type_labels)>>)

type_strings_line ==
  Format(<<"s","t","a","t","i","c"," ","s","t","d",":",":","s","t","r","i","n","g"," ","t","y","p","e","_","s","t","r","i","n","g","s","[","]"," ","="," ","{"," ","%","s"," ","}",";">>,
         <<join(<<","," ">>, [k \in 1..Len(type_labels) |->
                         <<"\"">> \o type_labels[k] \o <<"\"">>])>>)

\* what a run gives: the exception it raised (<< >>: none) and what it emitted
ran(exc, body) == [exc |-> exc, body |-> IF exc # << >> THEN << >> ELSE body]

\* TypesWriter.run
types_run ==
  ran(<< >>,
      [labels |-> type_labels,
       strings |-> list([k \in 1..Len(type_labels) |->
                           <<"\"">> \o type_labels[k] \o <<"\"">>])])

\* the "case vvm_types::..." labels a loop over types emits, with the C++ type
type_cases ==
  ran(<< >>, ConcatAll([k \in 1..Len(types) |->
               <<[tag |-> types[k][2] \o <<"s">>, cpp |-> types[k][3]],
                 [tag |-> types[k][2] \o <<"v">>, cpp |-> types[k][3]]>>]))

\* opcodes_run with an identifier that occurs twice treated as an error
opcodes_run_checked(t) ==
  LET labels == list([k \in 1..Len(t) |-> get_opcode(t[k][2], t[k][3])])
      twice == \E j, k \in 1..Len(t) : j # k /\ labels[j] = labels[k]
  IN ran(IF twice THEN KeyError ELSE first_raised(labels),
         [enum |-> labels,
          strings |-> list([k \in 1..Len(t) |-> <<"\"">> \o labels[k] \o <<"\"">>])])

\* OpcodesWriter.run on table t
opcodes_run(t) ==
  LET labels == list([k \in 1..Len(t) |-> get_opcode(t[k][2], t[k][3])])
  IN ran(first_raised(labels),
         [enum |-> labels,
          strings |-> list([k \in 1..Len(t) |-> <<"\"">> \o labels[k] \o <<"\"">>])])

\* BuiltinsWriter.run on table t
builtins_run(t) ==
  LET bodies == list([k \in 1..Len(t) |-> builtins_body(t[k])])
      excs == list([k \in 1..Len(t) |->
                IF bodies[k] = << >> THEN << >>
                ELSE first_raised(<<bodies[k][1].oc, bodies[k][1].ft>>)])
  IN ran(first_raised(excs), bodies)

\* disassembler_run with the label of halt last in the jump table
disassembler_run_halt_last(t) ==
  LET labels == list([k \in 1..Len(t) |-> get_opcode(t[k][2], t[k][3])])
  IN ran(first_raised(labels),
         [table |-> Tail(labels) \o <<labels[1]>>,
          labels |-> list([k \in 1..Len(t) |-> disassembler_label(t[k])]),
          cases |-> list([k \in 1..Len(t) |-> disassembler_case(t[k])])])

\* DisassemblerWriter.run on table t
disassembler_run(t) ==
  LET labels == list([k \in 1..Len(t) |-> get_opcode(t[k][2], t[k][3])])
  IN ran(first_raised(labels),
         [table |-> labels,
          labels |-> list([k \in 1..Len(t) |-> disassembler_label(t[k])]),
          cases |-> list([k \in 1..Len(t) |-> disassembler_case(t[k])])])

\* DispatchWriter.run on table t
dispatch_run(t) ==
  LET labels == list([k \in 1..Len(t) |-> get_opcode(t[k][2], t[k][3])])
      funcs == list([k \in 1..Len(t) |-> dispatch_label(t[k]).func])
  IN ran(first_raised(labels \o funcs),
         [table |-> labels,
          labels |-> list([k \in 1..Len(t) |-> dispatch_label(t[k])]),
          cases |-> list([k \in 1..Len(t) |-> dispatch_case(t[k])])])

\* asof_switch with every case calling the implementation
asof_switch_unrestricted(name, restricted) ==
  [name |-> name,
   cases |-> ConcatAll([k \in 1..Len(types) |->
     LET throws == FALSE /\
                   ~\E n \in 1..Len(arithmetic_types \o time_ish_types) :
                      (arithmetic_types \o time_ish_types)[n] = types[k][1]
     IN <<[tag |-> types[k][2] \o <<"s">>, throws |-> throws, cpp |-> types[k][3]],
          [tag |-> types[k][2] \o <<"v">>, throws |-> throws, cpp |-> types[k][3]]>>])]

\* AsofWriter.run: the functions emitted, each a switch with two cases per
\* type that call the implementation or throw
asof_switch(name, restricted) ==
  [name |-> name,
   cases |-> ConcatAll([k \in 1..Len(types) |->
     LET throws == restricted /\
                   ~\E n \in 1..Len(arithmetic_types \o time_ish_types) :
                      (arithmetic_types \o time_ish_types)[n] = types[k][1]
     IN <<[tag |-> types[k][2] \o <<"s">>, throws |-> throws, cpp |-> types[k][3]],
          [tag |-> types[k][2] \o <<"v">>, throws |-> throws, cpp |-> types[k][3]]>>])]

asof_run ==
  ran(<< >>,
  <<asof_switch(<<"a","s","o","f","m","a","t","c","h","_","a","r","r">>, FALSE),
    asof_switch(<<"a","s","o","f","n","e","a","r","_","a","r","r">>, TRUE),
    asof_switch(<<"a","s","o","f","w","i","t","h","i","n","_","a","r","r">>, TRUE),
    asof_switch(<<"e","q","a","s","o","f","m","a","t","c","h","_","d","f">>, FALSE),
    asof_switch(<<"e","q","a","s","o","f","n","e","a","r","_","d","f">>, TRUE),
    asof_switch(<<"e","q","a","s","o","f","w","i","t","h","i","n","_","d","f">>, TRUE)>>)

\* main: the headers, in the order of the chain
writers ==
  <<"types.h", "opcodes.h", "allocate.h", "builtins.h", "disassembler.h",
    "dispatch.h", "repr.h", "parse.h", "assign.h", "append.h", "where.h",
    "wrap_immediate.h", "len.h", "isort.h", "split.h", "categorize.h",
    "asof.h">>

\* the position of a header in the chain
writer(name) == CHOOSE w \in 1..Len(writers) : writers[w] = name

\* a header that was not opened
absent == [state |-> "absent", body |-> << >>]

\* ChainOfWriters on table t, before the first writer
chain_of(t) ==
  [table |-> t, w |-> 1, exc |-> << >>,
   files |-> [n \in {writers[w] : w \in 1..Len(writers)} |-> absent]]

\* no run of the chain
chain_idle == [chain_of(<< >>) EXCEPT !.w = 0]

\* execute with the file opened only once run has returned
execute_unopened(c, r) ==
  IF r.exc # << >>
  THEN [c EXCEPT !.exc = r.exc,
                 !.w = 0]
  ELSE [c EXCEPT !.files[writers[c.w]] = [state |-> "closed", body |-> r.body],
                 !.w = c.w + 1]

\* HeaderWriter.execute of writer c.w, whose run gave r: the file is opened
\* and the preamble written; an exception leaves it open and ends
\* ChainOfWriters.run and main, else the file is closed
execute(c, r) ==
  IF r.exc # << >>
  THEN [c EXCEPT !.files[writers[c.w]] = [state |-> "open", body |-> << >>],
                 !.exc = r.exc,
                 !.w = 0]
  ELSE [c EXCEPT !.files[writers[c.w]] = [state |-> "closed", body |-> r.body],
                 !.w = c.w + 1]

\* a generated asof function called with type tag t: what its switch does
asof_switch_on(f, t) ==
  LET hits == {k \in 1..Len(f.cases) : f.cases[k].tag = t}
  IN IF hits = {} THEN [name |-> f.name, tag |-> t, outcome |-> "no case"]
     ELSE LET k == CHOOSE k \in hits : \A j \in hits : k <= j
          IN [name |-> f.name, tag |-> t,
              outcome |-> IF f.cases[k].throws THEN "throw" ELSE "return"]

\* no call of a generated asof function
asof_idle == [name |-> << >>, tag |-> << >>, outcome |-> "idle"]

----------------------------------------------------------------------------
\* Instruction streams.  An instruction is the value of its opcode followed by
\* its operand words; call is followed by the words its last operand counts.

MaxInstr == 2
MaxSteps == 4

instr(oc, words) == <<enum_value(opcode_labels, oc)>> \o words

Instrs == {
  instr(<<"a","l","l","o","c">>, <<0, 4>>),
  instr(<<"w","r","i","t","e">>, <<0>>),
  instr(<<"a","d","d","_","i","6","4","s","_","i","6","4","s">>, <<1, 2, 3>>),
  instr(<<"b","r">>, <<0>>),
  instr(<<"r","e","t">>, <<5>>),
  instr(<<"c","a","l","l">>, <<9, 17>>) \o <<2, 6, 10, 14>> }

Programs == UNION {[1..n -> Instrs] : n \in 0..MaxInstr}

\* the words of a program, ended by halt
assemble(prog) == ConcatAll(prog) \o instr(<<"h","a","l","t">>, << >>)

\* where the instructions of the assembled program start
instr_starts(prog) ==
  {Len(ConcatAll(SubSeq(prog, 1, n))) : n \in 0..Len(prog)}

----------------------------------------------------------------------------
\* main: the chain of writers, each running its loops over opcodes

generated0 == [table |-> << >>, labels |-> << >>, cases |-> << >>]

GenInit ==
  /\ pc = "opcodes.h"
  /\ i = 0
  /\ opcodes_h = [enum |-> << >>, strings |-> << >>]
  /\ builtins_h = << >>
  /\ disassembler_h = generated0
  /\ dispatch_h = generated0

RunIdle ==
  /\ code = << >>
  /\ starts = {}
  /\ thr = machine0
  /\ swi = machine0
  /\ dis = machine0
  /\ dsw = machine0

ReflowIdle == rf = reflow_idle

ChainIdle == chain = chain_idle /\ asof = asof_idle

Init == GenInit /\ RunIdle /\ ReflowIdle /\ ChainIdle

gen_vars == <<pc, i, opcodes_h, builtins_h, disassembler_h, dispatch_h>>
run_vars == <<code, starts, thr, swi, dis, dsw>>

\* OpcodesWriter.run
OpcodesWriter ==
  /\ pc = "opcodes.h"
  /\ opcodes_h' = [enum |-> opcode_labels, strings |-> opcode_strings]
  /\ pc' = "builtins.h"
  /\ UNCHANGED <<i, builtins_h, disassembler_h, dispatch_h, run_vars, rf, chain, asof>>

\* BuiltinsWriter.run: one iteration of "for o in opcodes"; an exception
\* ends main
BuiltinsWriter ==
  /\ pc = "builtins.h"
  /\ LET body == builtins_body(opcodes[i + 1])
     IN IF body # << >> /\ (raised(body[1].oc) \/ raised(body[1].ft))
        THEN pc' = "raised" /\ UNCHANGED <<i, builtins_h>>
        ELSE /\ builtins_h' = Append(builtins_h, body)
             /\ IF i + 1 = Len(opcodes) THEN pc' = "disassembler.h" /\ i' = 0
                ELSE pc' = pc /\ i' = i + 1
  /\ UNCHANGED <<opcodes_h, disassembler_h, dispatch_h, run_vars, rf, chain, asof>>

\* DisassemblerWriter.run: the jump table and a labelled handler per entry,
\* then a case per entry
DisassemblerWriter ==
  /\ pc = "disassembler.h"
  /\ disassembler_h' = [table |-> disassembler_jump_table,
                        labels |-> disassembler_labels,
                        cases |-> disassembler_cases]
  /\ pc' = "dispatch.h"
  /\ UNCHANGED <<i, opcodes_h, builtins_h, dispatch_h, run_vars, rf, chain, asof>>

\* DispatchWriter.run: the jump table and a labelled handler per entry, then
\* a case per entry
DispatchWriter ==
  /\ pc = "dispatch.h"
  /\ dispatch_h' = [table |-> dispatch_jump_table,
                    labels |-> dispatch_labels,
                    cases |-> dispatch_cases]
  /\ pc' = "done"
  /\ UNCHANGED <<i, opcodes_h, builtins_h, disassembler_h, run_vars, rf, chain, asof>>

Next ==
  \/ OpcodesWriter
  \/ BuiltinsWriter
  \/ DisassemblerWriter
  \/ DispatchWriter

Spec == Init /\ [][Next]_vars

----------------------------------------------------------------------------
\* The generated programs run on a stream

\* pc = "run": the headers were generated and compiled before; the programs
\* are the handlers and tables the writers emit (the operators above)
RunInit ==
  /\ pc = "run"
  /\ i = 0
  /\ opcodes_h = [enum |-> << >>, strings |-> << >>]
  /\ builtins_h = << >>
  /\ disassembler_h = generated0
  /\ dispatch_h = generated0
  /\ \E prog \in Programs :
       /\ code = assemble(prog)
       /\ starts = instr_starts(prog)
  /\ thr = machine0
  /\ swi = machine0
  /\ dis = machine0
  /\ dsw = machine0
  /\ rf = reflow_idle
  /\ ChainIdle

\* one instruction in both builds of dispatch(), the operation behaving the
\* same in both
Dispatch ==
  /\ ~thr.halted /\ ~thr.ub /\ Len(thr.trace) < MaxSteps
  /\ ~swi.halted /\ ~swi.ub /\ Len(swi.trace) < MaxSteps
  /\ \E t \in external_targets(starts, thr.ip) :
       /\ thr' = dispatch_threaded(thr, code, t)
       /\ swi' = dispatch_switch(swi, code, t)
  /\ UNCHANGED <<gen_vars, rf, chain, asof, code, starts, dis, dsw>>

\* one instruction in both builds of disassemble()
Disassemble ==
  /\ ~dis.halted /\ ~dis.ub /\ Len(dis.trace) < MaxSteps
  /\ ~dsw.halted /\ ~dsw.ub /\ Len(dsw.trace) < MaxSteps
  /\ dis' = disassemble(dis, code)
  /\ dsw' = disassemble_switch(dsw, code)
  /\ UNCHANGED <<gen_vars, rf, chain, asof, code, starts, thr, swi>>

RunNext == Dispatch \/ Disassemble

SpecRun == RunInit /\ [][RunNext]_vars

----------------------------------------------------------------------------
\* HeaderWriter.emit on a line: reflow_lines, then the writes

MaxLen == 5
MaxLines == 5

Alphabet == {"a", " ", "\"", "{", "("}

Strings == UNION {[1..n -> Alphabet] : n \in 0..MaxLen}

\* the depths that leave a budget of 2, 4 and 6 columns
NarrowDepths == {MAX_COL \div TABSIZE - k : k \in 1..3}

\* a word of n letters
word(n) == [k \in 1..n |-> "a"] \o << >>

\* the calls of emit: short lines under narrow budgets, the lines of
\* TypesWriter and words longer than a full line at depths 0 and 1
Emits ==
  (Strings \X NarrowDepths)
  \cup ({type_labels_line, type_strings_line,
         word(MAX_COL + 1), word(MAX_COL + 1) \o <<" ","b">>,
         <<"f","(">> \o word(MAX_COL) \o <<")"," ">>} \X {0, 1})

ReflowInit ==
  /\ pc = "emit"
  /\ i = 0
  /\ opcodes_h = [enum |-> << >>, strings |-> << >>]
  /\ builtins_h = << >>
  /\ disassembler_h = generated0
  /\ dispatch_h = generated0
  /\ RunIdle
  /\ ChainIdle
  /\ \E e \in Emits : rf = reflow_call(e[1], e[2])

\* reflow_lines: entry
ReflowEnter ==
  /\ rf.pc = "call"
  /\ rf' = reflow_enter(rf)
  /\ UNCHANGED <<gen_vars, run_vars, chain, asof>>

\* reflow_lines: one pass of the loop
ReflowWhile ==
  /\ rf.pc = "while"
  /\ Len(rf.lines) < MaxLines
  /\ rf' = reflow_while(rf)
  /\ UNCHANGED <<gen_vars, run_vars, chain, asof>>

\* HeaderWriter.emit: the lines returned are written
Emit ==
  /\ rf.pc = "return"
  /\ rf' = emit(rf)
  /\ UNCHANGED <<gen_vars, run_vars, chain, asof>>

ReflowNext == ReflowEnter \/ ReflowWhile \/ Emit

SpecReflow == ReflowInit /\ [][ReflowNext]_vars

----------------------------------------------------------------------------
\* main on an opcode table: the chain of writers, each HeaderWriter.execute
\* one step, then the generated asof functions called

MaxEntries == 2

\* entries for tables: two of the table, one with the signature of another
\* result, and three that name an unregistered type
Pool == {
  <<<<"+">>, <<"a","d","d">>, <<"(","I","n","t","6","4",",","I","n","t","6","4",")","-",">","I","n","t","6","4">>, 3>>,
  <<<<"+">>, <<"a","d","d">>, <<"(","I","n","t","6","4",",","I","n","t","6","4",")","-",">","F","l","o","a","t","6","4">>, 3>>,
  <<<<"l","e","n">>, <<"l","e","n">>, <<"[","S","t","r","i","n","g","]","-",">","I","n","t","6","4">>, 2>>,
  <<<<"n","e","g">>, <<"n","e","g">>, <<"F","o","o","-",">","F","o","o">>, 2>>,
  <<<<"n","o","w">>, <<"n","o","w">>, <<"I","n","t","6","4","-",">","F","o","o">>, 2>>,
  <<<< >>, <<"w","r","a","p">>, <<"[","I","n","t","6","4","]","-",">","[","F","o","o","]">>, 2>> }

\* the table of the generator, and halt followed by entries of the pool
Tables ==
  {opcodes} \cup
  {<<opcodes[1]>> \o t : t \in UNION {[1..n -> Pool] : n \in 0..MaxEntries}}

ChainInit ==
  /\ pc = "chain"
  /\ i = 0
  /\ opcodes_h = [enum |-> << >>, strings |-> << >>]
  /\ builtins_h = << >>
  /\ disassembler_h = generated0
  /\ dispatch_h = generated0
  /\ RunIdle
  /\ ReflowIdle
  /\ asof = asof_idle
  /\ \E t \in Tables : chain = chain_of(t)

ExecuteTypesWriter ==
  /\ chain.w = writer("types.h")
  /\ chain' = execute(chain, types_run)
  /\ UNCHANGED <<gen_vars, run_vars, rf, asof>>

ExecuteOpcodesWriter ==
  /\ chain.w = writer("opcodes.h")
  /\ chain' = execute(chain, opcodes_run(chain.table))
  /\ UNCHANGED <<gen_vars, run_vars, rf, asof>>

\* AllocateWriter and the writers from ReprWriter to CategorizeWriter: their
\* runs loop over types only
ExecuteTypeSwitchWriter ==
  /\ chain.w \in {writer("allocate.h")} \cup
                 (writer("repr.h")..writer("categorize.h"))
  /\ chain' = execute(chain, type_cases)
  /\ UNCHANGED <<gen_vars, run_vars, rf, asof>>

ExecuteBuiltinsWriter ==
  /\ chain.w = writer("builtins.h")
  /\ chain' = execute(chain, builtins_run(chain.table))
  /\ UNCHANGED <<gen_vars, run_vars, rf, asof>>

ExecuteDisassemblerWriter ==
  /\ chain.w = writer("disassembler.h")
  /\ chain' = execute(chain, disassembler_run(chain.table))
  /\ UNCHANGED <<gen_vars, run_vars, rf, asof>>

ExecuteDispatchWriter ==
  /\ chain.w = writer("dispatch.h")
  /\ chain' = execute(chain, dispatch_run(chain.table))
  /\ UNCHANGED <<gen_vars, run_vars, rf, asof>>

ExecuteAsofWriter ==
  /\ chain.w = writer("asof.h")
  /\ chain' = execute(chain, asof_run)
  /\ UNCHANGED <<gen_vars, run_vars, rf, asof>>

\* a generated asof function called on a type tag
AsofCall ==
  /\ chain.files["asof.h"].state = "closed"
  /\ asof = asof_idle
  /\ \E f \in 1..Len(chain.files["asof.h"].body),
        t \in {type_labels[k] : k \in 1..Len(type_labels)} :
       asof' = asof_switch_on(chain.files["asof.h"].body[f], t)
  /\ UNCHANGED <<gen_vars, run_vars, rf, chain>>

ChainNext ==
  \/ ExecuteTypesWriter
  \/ ExecuteOpcodesWriter
  \/ ExecuteTypeSwitchWriter
  \/ ExecuteBuiltinsWriter
  \/ ExecuteDisassemblerWriter
  \/ ExecuteDispatchWriter
  \/ ExecuteAsofWriter
  \/ AsofCall

SpecChain == ChainInit /\ [][ChainNext]_vars

----------------------------------------------------------------------------
\* Properties of the running programs (SpecRun)

\* the sequences a and b agree wherever both are defined
Agree(a, b) ==
  \A k \in 1..(IF Len(a) <= Len(b) THEN Len(a) ELSE Len(b)) : a[k] = b[k]

\* the name of what machine m invoked or printed last, and its operand words
last_name(m) == m.calls[Len(m.calls)][1]
last_args(m) == m.calls[Len(m.calls)][2]
last_is(m, names) == Len(m.calls) > 0 /\ ~m.halted /\ last_name(m) \in names

\* the values the instruction pointer of m went through
trajectory(m) == IF m.halted THEN m.trace ELSE Append(m.trace, m.ip)

\* C2: on every valid stream, with the operations behaving the same, the
\* label-threaded and the switch-based dispatch() decode at the same
\* instruction-pointer values, invoke the same operations with the same
\* operand words, and have both halted or both not; neither leaves the stream.
C2_EnginesAgree ==
  /\ thr.trace = swi.trace
  /\ thr.calls = swi.calls
  /\ thr.ip = swi.ip
  /\ thr.halted = swi.halted
  /\ ~thr.ub /\ ~swi.ub

\* both builds ran a typed operation and a jump and then halted
C2_Witness ==
  /\ thr.halted /\ swi.halted
  /\ Len(swi.calls) = 2
  /\ swi.calls[1][1] = <<"a","d","d","_","s","s","<","i","n","t","6","4","_","t",","," ","i","n","t","6","4","_","t",","," ","i","n","t","6","4","_","t",">">>
  /\ swi.calls[1][2] = <<1, 2, 3>>
  /\ swi.calls[2][1] = <<"b","r">>
  /\ swi.trace = <<0, 4, 6>>

\* the start of the instruction that follows the one at p
next_start(p) ==
  CHOOSE s \in starts \cup {Len(code)} :
    s > p /\ \A r \in starts \cup {Len(code)} : r > p => s <= r

\* every operation that machine m invoked so far left the instruction pointer
\* at the start of the following instruction
fell_through(m) ==
  /\ \A k \in 1..(Len(m.trace) - 1) : m.trace[k + 1] = next_start(m.trace[k])
  /\ (m.trace # << >> /\ ~m.halted /\ ~m.ub) =>
       m.ip = next_start(m.trace[Len(m.trace)])

fixed_operands(m) == Len(last_args(m))
sub_block(m) == code[m.p + fixed_operands(m) + 1] \div 4

\* C4 as stated: after a call or a ret at p, both builds of dispatch() and
\* disassemble() have moved the instruction pointer past the fixed operands
\* and then by the length in the upper bits of the last operand.
C4_Original ==
  \A m \in {thr, swi, dis, dsw} :
    last_is(m, {<<"c","a","l","l">>, <<"r","e","t">>}) =>
      m.own = m.p + 1 + fixed_operands(m) + sub_block(m)

\* C4, amended: only disassemble(), and only for call, moves the instruction
\* pointer past the fixed operands and then by the length in the upper bits of
\* the last operand.  The handlers of call and ret in both builds of
\* dispatch() move it past the fixed operands only (3 words for call, 2 for
\* ret) and hand the stream to the operation; disassemble() moves it past the
\* 2 words of a ret only.
C4_SubBlockSkip ==
  /\ \A a \in {dis, dsw} :
       /\ last_is(a, {<<"c","a","l","l">>}) =>
            /\ fixed_operands(a) = 2
            /\ a.own = a.p + 3 + (code[a.p + 3] \div 4)
            /\ a.ip = a.own
       /\ last_is(a, {<<"r","e","t">>}) => a.own = a.p + 2 /\ a.ip = a.own
  /\ \A m \in {thr, swi} :
       /\ last_is(m, {<<"c","a","l","l">>}) =>
            m.own = m.p + 3 /\ m.calls[Len(m.calls)][3] = TRUE
       /\ last_is(m, {<<"r","e","t">>}) =>
            m.own = m.p + 2 /\ m.calls[Len(m.calls)][3] = TRUE

\* a call whose last operand holds the length 4: disassemble() is 4 words
\* further than the handlers of dispatch() were before the operation ran
C4_Witness ==
  /\ \A m \in {thr, swi, dis, dsw} : last_is(m, {<<"c","a","l","l">>}) /\ m.p = dis.p
  /\ sub_block(dis) = 4
  /\ dis.own = dis.p + 7
  /\ dsw.own = dsw.p + 7
  /\ thr.own = thr.p + 3
  /\ swi.own = swi.p + 3

\* the stream alloc(2 operands), write(1 operand), halt
C5_stream == assemble(<<instr(<<"a","l","l","o","c">>, <<0, 4>>), instr(<<"w","r","i","t","e">>, <<0>>)>>)

\* C5 as stated: on this stream both builds of dispatch() take the
\* instruction pointer through 0, 3, 5, 6, and halt with it at 6.
C5_Original ==
  \A m \in {thr, swi} :
    (code = C5_stream /\ m.halted) =>
      trajectory(m) = <<0, 3, 5, 6>> /\ m.ip = 6

\* C5, amended: on this stream both builds of dispatch() take the instruction
\* pointer through 0, 3, 5: alloc and write move it by 1 + operand-count, and
\* halt returns without moving it, so the run ends with the pointer at 5.
C5_Trajectory ==
  \A m \in {thr, swi} :
    code = C5_stream =>
      /\ Agree(trajectory(m), <<0, 3, 5>>)
      /\ m.halted => trajectory(m) = <<0, 3, 5>> /\ m.ip = 5
      /\ Len(m.trace) = 3 => m.halted

\* both builds of dispatch() have halted on the stream
C5_Witness ==
  /\ code = C5_stream
  /\ Len(code) = 6
  /\ thr.halted /\ swi.halted
  /\ thr.trace = <<0, 3, 5>> /\ swi.trace = <<0, 3, 5>>
  /\ thr.ip = 5 /\ swi.ip = 5

----------------------------------------------------------------------------
\* Properties of the generator (Spec)

\* the entries BuiltinsWriter has handled are opcodes[1..handled]
handled == Len(builtins_h)

\* the store_symbol call emitted for entry k, and whether there is one
emitted(k) == k \in DOMAIN builtins_h /\ builtins_h[k] # << >>
symbol_of(k) == builtins_h[k][1]

\* the types a signature names in front of "->" (all of it without "->"),
\* which get_opcode encodes
encoded_params(sig) ==
  IF Len(sig) = 0 THEN << >>
  ELSE LET params == split(sig, <<"-",">">>)[1]
       IN IF params[1] = "(" /\ params[Len(params)] = ")"
          THEN split(SubSeq(params, 2, Len(params) - 1), <<",">>)
          ELSE <<params>>

\* the parameter types a signature declares: those in front of "->"
declared_params(sig) ==
  IF Len(split(sig, <<"-",">">>)) = 2 THEN encoded_params(sig) ELSE << >>

\* the result type a signature declares (<< >>: none)
declared_result(sig) ==
  LET sigs == split(sig, <<"-",">">>)
  IN IF Len(sigs) = 2 THEN (IF sigs[2] = <<"(",")">> THEN << >> ELSE <<sigs[2]>>)
     ELSE IF Len(sig) = 0 THEN << >> ELSE <<sig>>

\* C1: the identifiers get_opcode yields for the entries of the table, which
\* OpcodesWriter emits as the enumerators, are pairwise distinct (and none is
\* an exception).
C1_Uniqueness ==
  pc # "opcodes.h" =>
    /\ Len(opcodes_h.enum) = Len(opcodes)
    /\ \A k \in DOMAIN opcodes_h.enum : ~raised(opcodes_h.enum[k])
    /\ Cardinality({opcodes_h.enum[k] : k \in DOMAIN opcodes_h.enum}) =
         Len(opcodes_h.enum)

\* the enumerators are emitted; those of the scalar and of the array addition
\* differ
C1_Witness ==
  /\ pc = "builtins.h"
  /\ Len(opcodes_h.enum) = Len(opcodes)
  /\ opcodes[156][3] = <<"(","I","n","t","6","4",",","I","n","t","6","4",")","-",">","I","n","t","6","4">>
  /\ opcodes_h.enum[156] = <<"a","d","d","_","i","6","4","s","_","i","6","4","s">>
  /\ \E k \in DOMAIN opcodes_h.enum :
       /\ opcodes[k][3] = <<"(","[","I","n","t","6","4","]",",","[","I","n","t","6","4","]",")","-",">","[","I","n","t","6","4","]">>
       /\ opcodes_h.enum[k] = <<"a","d","d","_","i","6","4","v","_","i","6","4","v">>

\* a type as an array; an array and "()" stay
wrapped(t) == IF t = <<"(",")">> \/ t[1] = "[" THEN t ELSE <<"[">> \o t \o <<"]">>

\* the array form of a signature: every type wrapped as an array
array_form(sig) ==
  LET sigs == split(sig, <<"-",">">>)
      ps == encoded_params(sig)
      ws == list([k \in DOMAIN ps |-> wrapped(ps[k])])
      params == IF sigs[1][1] = "(" THEN <<"(">> \o join(<<",">>, ws) \o <<")">>
                ELSE join(<<",">>, ws)
  IN IF Len(sigs) = 2 THEN params \o <<"-",">">> \o wrapped(sigs[2]) ELSE params

\* entry k declares one or more parameters, all scalar
scalar_only(k) ==
  LET ps == declared_params(opcodes[k][3])
  IN ps # << >> /\ \A n \in DOMAIN ps : ps[n][1] # "["

scalar_entries == {k \in DOMAIN opcodes : scalar_only(k)}

\* the table has the array form of entry k under the same VVM name
paired(k) ==
  \E j \in DOMAIN opcodes :
    /\ opcodes[j][2] = opcodes[k][2]
    /\ opcodes[j][3] = array_form(opcodes[k][3])

paired_entries == {k \in scalar_entries : paired(k)}

\* the identifier of the array form of entry k
array_id(k) == get_opcode(opcodes[k][2], array_form(opcodes[k][3]))

array_ids == list([k \in DOMAIN opcodes |->
                    IF k \in scalar_entries THEN array_id(k) ELSE << >>])

\* C6 as stated: every entry of the table that takes only scalar parameters
\* has an entry of the same canonical name with the array form of its
\* signature, the timedelta-unit literals and range included; the
\* enumeration has the identifiers of both.
C6_Original ==
  pc # "opcodes.h" =>
    \A k \in scalar_entries :
      /\ k \in paired_entries
      /\ \E j \in DOMAIN opcodes_h.enum : opcodes_h.enum[j] = array_ids[k]

unpaired_names ==
  {<<"u","n","i","t","_","n","s">>, <<"u","n","i","t","_","u","s">>, <<"u","n","i","t","_","m","s">>, <<"u","n","i","t","_","s">>, <<"u","n","i","t","_","m">>, <<"u","n","i","t","_","h">>, <<"u","n","i","t","_","d">>,
   <<"r","a","n","g","e">>}

\* C6, amended: every entry of the table that takes only scalar parameters
\* has an entry of the same canonical name with the array form of its
\* signature, and the enumeration the identifiers of both, except the seven
\* timedelta-unit literals (unit_ns .. unit_d) and range, which the table
\* has in the scalar form only.
C6_Pairing ==
  pc # "opcodes.h" =>
    LET ids == {opcodes_h.enum[j] : j \in DOMAIN opcodes_h.enum}
    IN \A k \in scalar_entries :
         /\ k \in paired_entries <=> opcodes[k][2] \notin unpaired_names
         /\ array_ids[k] \in ids <=> opcodes[k][2] \notin unpaired_names

\* the enumeration is emitted; the scalar addition has its array form, the
\* unit literal of seconds has none
C6_Witness ==
  /\ pc = "builtins.h"
  /\ 156 \in scalar_entries /\ 156 \in paired_entries
  /\ opcodes_h.enum[156] = <<"a","d","d","_","i","6","4","s","_","i","6","4","s">>
  /\ array_ids[156] = <<"a","d","d","_","i","6","4","v","_","i","6","4","v">>
  /\ \E j \in DOMAIN opcodes_h.enum : opcodes_h.enum[j] = <<"a","d","d","_","i","6","4","v","_","i","6","4","v">>
  /\ \E k \in scalar_entries :
       /\ opcodes[k][2] = <<"u","n","i","t","_","s">>
       /\ opcodes_h.enum[k] = <<"u","n","i","t","_","s","_","i","6","4","s">>
       /\ k \notin paired_entries
       /\ array_ids[k] = <<"u","n","i","t","_","s","_","i","6","4","v">>
       /\ \A j \in DOMAIN opcodes_h.enum : opcodes_h.enum[j] # <<"u","n","i","t","_","s","_","i","6","4","v">>

\* C7 as stated: for every entry whose signature declares no parameter types
\* (an empty signature, or only a result type as for now) get_opcode returns
\* the canonical name unchanged.
C7_Original ==
  handled >= 1 =>
    (declared_params(opcodes[handled][3]) = << >> =>
       opcodes_h.enum[handled] = opcodes[handled][2])

\* C7, amended: get_opcode returns the canonical name unchanged exactly for
\* the entries with an empty signature; for now, whose signature is only the
\* result type Timestamp, it returns now_Ts: a signature without "->" is
\* encoded as a parameter type.
C7_EmptySignature ==
  handled >= 1 =>
    /\ opcodes_h.enum[handled] = opcodes[handled][2]
         <=> Len(opcodes[handled][3]) = 0
    /\ opcodes[handled][2] = <<"n","o","w">> => opcodes_h.enum[handled] = <<"n","o","w","_","T","s">>

\* the entry now is handled, after the entries with an empty signature
C7_Witness ==
  /\ handled = 29
  /\ opcodes[29] = <<<<"n","o","w">>, <<"n","o","w">>, <<"T","i","m","e","s","t","a","m","p">>, 1>>
  /\ opcodes_h.enum[29] = <<"n","o","w","_","T","s">>
  /\ symbol_of(29).oc = <<"n","o","w","_","T","s">>
  /\ opcodes[1][3] = << >> /\ opcodes_h.enum[1] = <<"h","a","l","t">>

\* the type a suffix of an identifier stands for in the registry: its tag
\* with 's' is a scalar, with 'v' an array (<<"?">>: none)
decode_suffix(x) ==
  IF Len(x) < 2 \/ x[Len(x)] \notin {"s", "v"} THEN <<"?">>
  ELSE LET tag == SubSeq(x, 1, Len(x) - 1)
           hits == {k \in DOMAIN types : types[k][2] = tag}
       IN IF Cardinality(hits) # 1 THEN <<"?">>
          ELSE LET t == types[CHOOSE k \in hits : TRUE][1]
               IN IF x[Len(x)] = "s" THEN t ELSE <<"[">> \o t \o <<"]">>

\* the types the suffixes of the identifier oc of the operation func_name
\* stand for, in order
decode(oc, func_name) ==
  LET rest == SubSeq(oc, Len(func_name) + 1, Len(oc))
  IN IF raised(oc) \/ SubSeq(oc, 1, Len(func_name)) # func_name THEN <<"?">>
     ELSE IF rest = << >> THEN << >>
     ELSE IF rest[1] # "_" THEN <<"?">>
     ELSE LET xs == split(Tail(rest), <<"_">>)
          IN list([k \in DOMAIN xs |-> decode_suffix(xs[k])])

\* C8 as stated: decoding the suffixes of an entry's identifier gives the
\* concrete types of the entry's signature, parameters and result, in order.
C8_Original ==
  handled >= 1 =>
    decode(opcodes_h.enum[handled], opcodes[handled][2]) =
      encoded_params(opcodes[handled][3]) \o
      (IF Len(split(opcodes[handled][3], <<"-",">">>)) = 2
       THEN declared_result(opcodes[handled][3]) ELSE << >>)

\* C8, amended: decoding the suffixes of an entry's identifier gives the
\* parameter types of the entry's signature, in order (for a signature
\* without "->", its only type), followed for a cast by the result type; the
\* result type of any other entry is not in the identifier.
C8_RoundTrip ==
  handled >= 1 =>
    decode(opcodes_h.enum[handled], opcodes[handled][2]) =
      encoded_params(opcodes[handled][3]) \o
      (IF opcodes[handled][2] = <<"c","a","s","t">>
       THEN <<split(opcodes[handled][3], <<"-",">">>)[2]>> ELSE << >>)

\* an array comparison is handled: its identifier decodes to the two
\* parameter types, the result [Bool] is not in it
C8_Witness ==
  /\ handled >= 1
  /\ opcodes[handled][2] = <<"l","t">>
  /\ opcodes[handled][3] = <<"(","[","I","n","t","6","4","]",",","I","n","t","6","4",")","-",">","[","B","o","o","l","]">>
  /\ opcodes_h.enum[handled] = <<"l","t","_","i","6","4","v","_","i","6","4","s">>
  /\ decode(opcodes_h.enum[handled], <<"l","t">>) = <<<<"[","I","n","t","6","4","]">>, <<"I","n","t","6","4">>>>

\* the bitset given to entry k in the output (-1: none)
bitset(k) == IF emitted(k) THEN symbol_of(k).traits ELSE -1

\* C9 as stated: the bitset of an opcode is 7 unless its canonical name has
\* an override, and then the override's value; print and store have 0, load
\* has 8, range has 15.
C9_Original ==
  handled >= 1 =>
    LET name == opcodes[handled][2]
    IN /\ emitted(handled) =>
            bitset(handled) = IF name \in DOMAIN d THEN d[name] ELSE 7
       /\ name = <<"p","r","i","n","t">> => bitset(handled) = 0
       /\ name = <<"s","t","o","r","e">> => bitset(handled) = 0
       /\ name = <<"l","o","a","d">> => bitset(handled) = 8
       /\ name = <<"r","a","n","g","e">> => bitset(handled) = 15

\* C9, amended: the bitset of an entry with an Empirical name is 7 unless
\* that name has an override, and then the override's value: print has 0,
\* range has 15, now has 6.  load and store have no Empirical name in the
\* table and are given no bitset; their overrides (8 and 0) are never used.
C9_Traits ==
  handled >= 1 =>
    LET o == opcodes[handled]
    IN /\ Len(o[1]) # 0 =>
            /\ emitted(handled)
            /\ bitset(handled) =
                 IF o[1] = <<"p","r","i","n","t">> THEN 0
                 ELSE IF o[1] = <<"r","a","n","g","e">> THEN 15
                 ELSE IF o[1] = <<"n","o","w">> THEN 6
                 ELSE 7
       /\ o[2] \in {<<"l","o","a","d">>, <<"s","t","o","r","e">>} => Len(o[1]) = 0 /\ ~emitted(handled)

\* a print is handled and has 0; load and store were handled before and
\* have no bitset; now has 6 and a cast has 7
C9_Witness ==
  /\ handled >= 1
  /\ opcodes[handled][2] = <<"p","r","i","n","t">>
  /\ bitset(handled) = 0
  /\ opcodes[9][2] = <<"l","o","a","d">> /\ bitset(9) = -1
  /\ opcodes[10][2] = <<"s","t","o","r","e">> /\ bitset(10) = -1
  /\ opcodes[29][2] = <<"n","o","w">> /\ bitset(29) = 6
  /\ opcodes[30][2] = <<"c","a","s","t">> /\ bitset(30) = 7

\* C10 as stated: every entry of the table, also one with an empty Empirical
\* name, is given a bitset in the output, and the bitset depends only on the
\* canonical name.
C10_Original ==
  handled >= 1 =>
    /\ emitted(handled)
    /\ \A j \in 1..handled :
         (emitted(j) /\ opcodes[j][2] = opcodes[handled][2]) =>
           bitset(j) = bitset(handled)

\* C10, amended: an entry is given a bitset in the output exactly if its
\* Empirical name is not empty: the internal opcodes (halt, load, store, idx,
\* del, ...) are given none, and BuiltinsWriter raises no exception.  Among
\* the entries given one, the bitset depends only on the canonical name.
C10_Coverage ==
  /\ pc # "raised"
  /\ handled >= 1 =>
       /\ emitted(handled) <=> Len(opcodes[handled][1]) # 0
       /\ emitted(handled) => Len(builtins_h[handled]) = 1
       /\ \A j \in 1..handled :
            (emitted(j) /\ emitted(handled) /\
             opcodes[j][2] = opcodes[handled][2]) =>
              bitset(j) = bitset(handled)

\* a cast is handled, and a cast of another Empirical name before it: both
\* have the same bitset; halt, without Empirical name, has none
C10_Witness ==
  /\ handled >= 2
  /\ opcodes[handled][2] = <<"c","a","s","t">> /\ emitted(handled)
  /\ opcodes[1][2] = <<"h","a","l","t">> /\ ~emitted(1)
  /\ \E j \in 1..handled :
       /\ opcodes[j][2] = <<"c","a","s","t">>
       /\ opcodes[j][1] # opcodes[handled][1]
       /\ emitted(j)
       /\ bitset(j) = 7 /\ bitset(handled) = 7

----------------------------------------------------------------------------
\* Properties of reflow_lines and emit

\* the text of a written line: the line without its newline
text(line) == SubSeq(line, 1, Len(line) - 1)

\* C11: every physical line reflow_lines returns, once emit has prefixed it
\* with depth * TABSIZE spaces, is at most MAX_COL characters long.
C11_Original ==
  rf.pc = "emitted" =>
    \A k \in 1..Len(rf.written) : Len(text(rf.written[k])) <= MAX_COL

\* C12: reflow_lines never breaks inside a quoted string: at every break it
\* chooses, the text of the remainder before the break holds an even number
\* of double quotes.  (The lines appended while the loop runs are these
\* texts, after a padding of spaces.)
C12_Original ==
  rf.pc = "while" =>
    \A k \in 1..Len(rf.lines) : str_count(rf.lines[k], "\"") % 2 = 0

\* the opening delimiters of line[k..] left open at its end, given those
\* open before k: the 0-based indexes, outermost first
RECURSIVE open_delimiters(_, _, _)
open_delimiters(line, k, open) ==
  IF k > Len(line) THEN open
  ELSE IF line[k] \in {"{", "("}
       THEN open_delimiters(line, k + 1, Append(open, k - 1))
  ELSE IF line[k] \in {"}", ")"} /\ open # << >>
       THEN open_delimiters(line, k + 1, SubSeq(open, 1, Len(open) - 1))
  ELSE open_delimiters(line, k + 1, open)

\* the column following the first unmatched opening delimiter, 0 if none
unmatched_column(line) ==
  LET open == open_delimiters(line, 1, << >>)
  IN IF open = << >> THEN 0 ELSE open[1] + 1

\* the 0-based index of the first ch in line, -1 if none
first_index(line, ch) ==
  IF \E k \in 1..Len(line) : line[k] = ch
  THEN (CHOOSE k \in 1..Len(line) :
          line[k] = ch /\ \A j \in 1..(k - 1) : line[j] # ch) - 1
  ELSE -1

\* the column two past the first brace of line, else the column past its
\* first parenthesis, else 0
brace_column(line) ==
  IF first_index(line, "{") >= 0 THEN first_index(line, "{") + 2
  ELSE IF first_index(line, "(") >= 0 THEN first_index(line, "(") + 1
  ELSE 0

\* the lines after the first start with c spaces of padding
padded(c) ==
  /\ rf.padding = spaces(c)
  /\ \A k \in 2..Len(rf.lines) :
       Len(rf.lines[k]) >= c /\ SubSeq(rf.lines[k], 1, c) = spaces(c)

\* C13 as stated: every continuation line starts at the column following the
\* first unmatched opening delimiter ('{' or '(') of the first physical line,
\* or at column 0 if there is none.
C13_Original ==
  Len(rf.lines) >= 2 => padded(unmatched_column(rf.lines[1]))

\* C13: every continuation line starts with a padding of j spaces, where j
\* is the index of the first '{' of the first physical line plus 2, matched
\* or not and whether or not a '(' precedes it; without a '{', the index of
\* the first '(' of that line plus 1; without either, 0.
C13_Padding ==
  Len(rf.lines) >= 2 => padded(brace_column(rf.lines[1]))

\* the enum line of TypesWriter was reflowed under its brace
C13_Witness ==
  /\ rf.pc = "emitted"
  /\ rf.s = type_labels_line
  /\ Len(rf.lines) >= 2
  /\ Len(rf.padding) = first_index(rf.lines[1], "{") + 2
  /\ unmatched_column(rf.lines[1]) # Len(rf.padding)

\* C19: reflow_lines terminates for every s and every depth >= 0, also when
\* the remainder is longer than the budget and holds no space, and when the
\* quote back-up moves the break before the start of the remainder: every
\* pass of the loop strictly shortens the remainder.
C19_Original ==
  [][rf.pc = "while" /\ rf'.pc = "while" => Len(rf'.cur) < Len(rf.cur)]_vars

\* the lines returned, the padding of the lines after the first removed
unpadded ==
  [k \in 1..Len(rf.lines) |->
     IF k = 1 THEN rf.lines[k]
     ELSE SubSeq(rf.lines[k], Len(rf.padding) + 1, Len(rf.lines[k]))] \o << >>

\* C20: reflow_lines preserves content: the lines it returns, the alignment
\* padding of the continuation lines removed, joined with single spaces give
\* back s exactly; only the single space at each break is removed, also when
\* the break was moved back to a quote.
C20_Original ==
  rf.pc \in {"return", "emitted"} => join(<<" ">>, unpadded) = rf.s

----------------------------------------------------------------------------
\* Properties of the chain of writers (SpecChain)

\* the type a type of a signature names: the element type of an array
RECURSIVE element(_)
element(t) ==
  IF Len(t) >= 2 /\ t[1] = "[" /\ t[Len(t)] = "]"
  THEN element(SubSeq(t, 2, Len(t) - 1))
  ELSE t

\* the type names the signature of entry o references
referenced(o) ==
  LET ts == declared_params(o[3]) \o declared_result(o[3])
  IN {element(ts[k]) : k \in 1..Len(ts)}

\* some entry of the table of the run references a type name that is not in
\* the registry
unregistered ==
  \E k \in 1..Len(chain.table) :
    \E t \in referenced(chain.table[k]) : t \notin DOMAIN _vvm_types

\* the run of the chain was aborted by an exception
aborted == chain.exc # << >>

\* the run of the chain ended normally
completed == chain.w = Len(writers) + 1

state_of(name) == chain.files[name].state

\* C14 as stated: if an entry of the table references an unregistered type
\* name, generation fails, and no header has been written or left partially
\* written when the run aborts.
C14_Original ==
  unregistered =>
    /\ ~completed
    /\ aborted => \A w \in 1..Len(writers) : state_of(writers[w]) = "absent"

\* C14: if an entry of the table references an unregistered type name,
\* generation fails with the KeyError of the first writer whose run looks the
\* name up: OpcodesWriter, BuiltinsWriter or DispatchWriter.  When the run
\* aborts, the headers of the writers before that one, types.h among them,
\* are completely written, the header of that writer is opened and left
\* partially written, and the headers of the writers after it are absent.
C14_PartialOutput ==
  unregistered =>
    /\ ~completed
    /\ chain.w <= writer("dispatch.h")
    /\ aborted =>
         /\ chain.exc = KeyError
         /\ \E f \in {writer("opcodes.h"), writer("builtins.h"),
                       writer("dispatch.h")} :
              \A w \in 1..Len(writers) :
                state_of(writers[w]) = IF w < f THEN "closed"
                                       ELSE IF w = f THEN "open"
                                       ELSE "absent"

\* the run was aborted in OpcodesWriter, after types.h was written
C14_Witness ==
  /\ unregistered
  /\ aborted
  /\ state_of("types.h") = "closed"
  /\ chain.files["types.h"].body.labels = type_labels
  /\ state_of("opcodes.h") = "open"
  /\ state_of("allocate.h") = "absent"

\* the pairs j < k of entries of table t that are distinct (canonical-name,
\* signature) pairs and encode to the same identifier
collisions_of(t) ==
  LET labels == list([k \in 1..Len(t) |-> get_opcode(t[k][2], t[k][3])])
  IN {jk \in (1..Len(t)) \X (1..Len(t)) :
        /\ jk[1] < jk[2]
        /\ labels[jk[1]] = labels[jk[2]]
        /\ ~raised(labels[jk[1]])
        /\ <<t[jk[1]][2], t[jk[1]][3]>> # <<t[jk[2]][2], t[jk[2]][3]>>}

\* the tables with such a pair
colliding == {t \in Tables : collisions_of(t) # {}}

\* the colliding pairs of the table of the run
collisions ==
  IF chain.table \in colliding THEN collisions_of(chain.table) ELSE {}

\* the handlers at positions j and k have the same label
same_label(handlers, j, k) == handlers[j].label = handlers[k].label

\* C15 as stated: if two distinct (canonical-name, signature) pairs of the
\* table encode to the same identifier, the run ends in a fatal error instead
\* of emitting an enumeration, jump tables and cases with the identifier twice.
C15_Original ==
  collisions # {} =>
    /\ ~completed
    /\ state_of("opcodes.h") # "closed"
    /\ state_of("disassembler.h") # "closed"
    /\ state_of("dispatch.h") # "closed"

\* C15: the generator does not detect a collision.  If two distinct
\* (canonical-name, signature) pairs of the table encode to the same
\* identifier, the run is not aborted on that account (it aborts only when a
\* type name is unregistered), and the identifier is emitted twice: in the
\* enumeration and the opcode strings, in both jump tables, as two labels and
\* as two switch cases of the disassembler and of the dispatch engine.
C15_NoCheck ==
  \A jk \in collisions :
    LET j == jk[1]
        k == jk[2]
        opcodes_file == chain.files["opcodes.h"]
        disassembler_file == chain.files["disassembler.h"]
        dispatch_file == chain.files["dispatch.h"]
    IN /\ aborted => unregistered
       /\ opcodes_file.state = "closed" =>
            /\ opcodes_file.body.enum[j] = opcodes_file.body.enum[k]
            /\ opcodes_file.body.strings[j] = opcodes_file.body.strings[k]
       /\ disassembler_file.state = "closed" =>
            /\ disassembler_file.body.table[j] = disassembler_file.body.table[k]
            /\ same_label(disassembler_file.body.labels, j, k)
            /\ same_label(disassembler_file.body.cases, j, k)
       /\ dispatch_file.state = "closed" =>
            /\ dispatch_file.body.table[j] = dispatch_file.body.table[k]
            /\ same_label(dispatch_file.body.labels, j, k)
            /\ same_label(dispatch_file.body.cases, j, k)

\* a run on a table with a collision ended normally, add_i64s_i64s emitted
\* twice
C15_Witness ==
  /\ collisions # {}
  /\ completed
  /\ ~aborted
  /\ chain.files["opcodes.h"].body.enum = <<<<"h","a","l","t">>, <<"a","d","d","_","i","6","4","s","_","i","6","4","s">>, <<"a","d","d","_","i","6","4","s","_","i","6","4","s">>>>
  /\ same_label(chain.files["dispatch.h"].body.cases, 2, 3)

\* the generated functions of the near-match joins
near_match == {<<"a","s","o","f","n","e","a","r","_","a","r","r">>, <<"a","s","o","f","w","i","t","h","i","n","_","a","r","r">>, <<"e","q","a","s","o","f","n","e","a","r","_","d","f">>, <<"e","q","a","s","o","f","w","i","t","h","i","n","_","d","f">>}

\* the scalar and the array tag of the types named
tags_of(names) ==
  UNION {{types[k][2] \o <<"s">>, types[k][2] \o <<"v">>} :
           k \in {n \in 1..Len(types) : types[n][1] \in names}}

\* the tags of the types the near-match joins do not support
unsupported_tags == tags_of({<<"B","o","o","l">>, <<"S","t","r","i","n","g">>, <<"C","h","a","r">>, <<"T","i","m","e","d","e","l","t","a">>})

\* the entries of the table for the near-match joins
near_entries ==
  {k \in 1..Len(opcodes) :
     opcodes[k][2] \in {<<"a","s","o","f","n","e","a","r">>, <<"a","s","o","f","w","i","t","h","i","n">>, <<"e","q","a","s","o","f","n","e","a","r">>, <<"e","q","a","s","o","f","w","i","t","h","i","n">>}}

\* a generated asof function was called
asof_called == asof.outcome # "idle"

\* C16 as stated: the near-match joins on a type that does not support them
\* (Bool, String, Char, Timedelta) are excluded during enumeration: no
\* generated code path of these operations ends in a runtime failure for
\* such a type.
C16_Original ==
  asof_called /\ asof.name \in near_match /\ asof.tag \in unsupported_tags
    => asof.outcome # "throw"

\* C16: the near-match joins are not enumerated by type: the table holds one
\* entry with an empty signature for each, and the functions generated for
\* them switch on the type tag when called.  For the scalar and the array
\* tag of Bool, String, Char and Timedelta the case throws (a runtime
\* failure); for those of Int64, Float64, Timestamp, Time and Date it calls
\* the implementation, as every case of the exact-match joins does.
C16_RuntimeThrow ==
  /\ Cardinality(near_entries) = 4
  /\ \A k \in near_entries : opcodes[k][3] = << >>
  /\ asof_called =>
       /\ asof.outcome \in {"throw", "return"}
       /\ asof.outcome = "throw" <=>
            asof.name \in near_match /\ asof.tag \in unsupported_tags

\* asofnear_arr was called for scalar Bool and threw
C16_Witness ==
  /\ asof.name = <<"a","s","o","f","n","e","a","r","_","a","r","r">>
  /\ asof.tag = <<"b","8","s">>
  /\ asof.tag \in unsupported_tags
  /\ asof.outcome = "throw"

\* the identifiers of the entries of the table of the run, in its order
names == list([k \in 1..Len(chain.table) |->
                 get_opcode(chain.table[k][2], chain.table[k][3])])

\* a jump table and the handlers emitted with it follow the order of ns
in_order(engine, ns) ==
  /\ engine.table = ns
  /\ Len(engine.labels) = Len(ns)
  /\ Len(engine.cases) = Len(ns)
  /\ \A k \in 1..Len(ns) :
       /\ engine.labels[k].label = ns[k]
       /\ engine.cases[k].label = ns[k]

\* C17: the value of an opcode is its position in the table and all generated
\* artifacts use that order: for every index, the label of the enumeration
\* (whose value is the index, halt being 0, the labels emitted for the table
\* of the generator being distinct), the opcode string, the entry of the jump
\* table of the dispatch engine and of the disassembler, and the switch case
\* all name the entry of the table at that index.
C17_TableOrder ==
  LET opcodes_file == chain.files["opcodes.h"]
      disassembler_file == chain.files["disassembler.h"]
      dispatch_file == chain.files["dispatch.h"]
      ns == names
  IN opcodes_file.state = "closed" =>
       /\ opcodes_file.body.enum = ns
       /\ Len(opcodes_file.body.strings) = Len(ns)
       /\ \A k \in 1..Len(ns) : opcodes_file.body.strings[k] = <<"\"">> \o ns[k] \o <<"\"">>
       /\ ns[1] = <<"h","a","l","t">>
       /\ enum_value(opcodes_file.body.enum, <<"h","a","l","t">>) = 0
       /\ chain.table = opcodes => Cardinality({ns[k] : k \in 1..Len(ns)}) = Len(ns)
       /\ disassembler_file.state = "closed" => in_order(disassembler_file.body, ns)
       /\ dispatch_file.state = "closed" => in_order(dispatch_file.body, ns)

\* the table of the generator was run through DispatchWriter: the last entry
\* is the last label everywhere
C17_Witness ==
  /\ chain.table = opcodes
  /\ state_of("dispatch.h") = "closed"
  /\ chain.files["opcodes.h"].body.enum[Len(opcodes)] = names[Len(opcodes)]
  /\ chain.files["dispatch.h"].body.table[Len(opcodes)] = names[Len(opcodes)]
  /\ chain.files["disassembler.h"].body.cases[Len(opcodes)].label = names[Len(opcodes)]
  /\ chain.w = writer("repr.h")

----------------------------------------------------------------------------
\* Properties of the cast entries (Spec)

\* the positions of the cast entries in the table
cast_entries == {k \in 1..Len(opcodes) : opcodes[k][2] = <<"c","a","s","t">>}

\* the (target, signature) pairs of the cast entries
cast_signatures == {<<opcodes[k][1], opcodes[k][3]>> : k \in cast_entries}

\* the compatibility matrix: for each target, the sources it is cast from
matrix ==
  LET every == {<<"I","n","t","6","4">>, <<"F","l","o","a","t","6","4">>, <<"B","o","o","l">>, <<"S","t","r","i","n","g">>, <<"C","h","a","r">>, <<"T","i","m","e","s","t","a","m","p">>,
                <<"T","i","m","e","d","e","l","t","a">>, <<"T","i","m","e">>, <<"D","a","t","e">>}
  IN ({<<"S","t","r","i","n","g">>, <<"I","n","t","6","4">>} \X every)
     \cup ({<<"F","l","o","a","t","6","4">>} \X {<<"F","l","o","a","t","6","4">>, <<"I","n","t","6","4">>, <<"S","t","r","i","n","g">>})
     \cup ({<<"C","h","a","r">>} \X {<<"C","h","a","r">>, <<"I","n","t","6","4">>})
     \cup ({<<"B","o","o","l">>} \X {<<"B","o","o","l">>})
     \cup ({<<"T","i","m","e","s","t","a","m","p">>} \X {<<"T","i","m","e","s","t","a","m","p">>, <<"T","i","m","e">>, <<"D","a","t","e">>, <<"I","n","t","6","4">>, <<"S","t","r","i","n","g">>})
     \cup ({<<"T","i","m","e","d","e","l","t","a">>} \X {<<"T","i","m","e","d","e","l","t","a">>, <<"I","n","t","6","4">>, <<"S","t","r","i","n","g">>})
     \cup ({<<"T","i","m","e">>} \X {<<"T","i","m","e","s","t","a","m","p">>, <<"T","i","m","e">>, <<"I","n","t","6","4">>, <<"S","t","r","i","n","g">>})
     \cup ({<<"D","a","t","e">>} \X {<<"T","i","m","e","s","t","a","m","p">>, <<"D","a","t","e">>, <<"I","n","t","6","4">>, <<"S","t","r","i","n","g">>})

\* a cast of the matrix in scalar and in array form, as (target, signature)
cast_forms(ts) ==
  {<<ts[1], ts[2] \o <<"-",">">> \o ts[1]>>,
   <<ts[1], <<"[">> \o ts[2] \o <<"]","-",">","[">> \o ts[1] \o <<"]">>>>}

matrix_signatures == UNION {cast_forms(ts) : ts \in matrix}

\* the cast entries whose target is Bool
bool_casts == {k \in cast_entries : opcodes[k][1] = <<"B","o","o","l">>}

\* C18: the cast entries whose target is Bool have Bool as their only source:
\* the table holds exactly two, Bool->Bool and [Bool]->[Bool]; and for each
\* target the cast sources in the table are exactly those of the
\* compatibility matrix, each once in scalar and once in array form.
C18_CastMatrix ==
  pc # "opcodes.h" =>
    /\ Cardinality(bool_casts) = 2
    /\ {opcodes[k][3] : k \in bool_casts} = {<<"B","o","o","l","-",">","B","o","o","l">>, <<"[","B","o","o","l","]","-",">","[","B","o","o","l","]">>}
    /\ {opcodes_h.enum[k] : k \in bool_casts} = {<<"c","a","s","t","_","b","8","s","_","b","8","s">>, <<"c","a","s","t","_","b","8","v","_","b","8","v">>}
    /\ cast_signatures = matrix_signatures
    /\ Cardinality(cast_entries) = 2 * Cardinality(matrix)

\* OpcodesWriter emitted the enumerator of the entry Bool->Bool
C18_Witness ==
  /\ pc = "builtins.h"
  /\ \E k \in bool_casts :
       /\ opcodes[k] = <<<<"B","o","o","l">>, <<"c","a","s","t">>, <<"B","o","o","l","-",">","B","o","o","l">>, 2>>
       /\ opcodes_h.enum[k] = <<"c","a","s","t","_","b","8","s","_","b","8","s">>


----------------------------------------------------------------------------
\* Properties of the operand counts (SpecChain)

\* the number of parameter types of the text before the arrow of a signature:
\* the members of a parenthesised list, else the one type
parameter_types(lhs) ==
  IF Len(lhs) >= 2 /\ lhs[1] = "(" /\ lhs[Len(lhs)] = ")"
  THEN IF Len(lhs) = 2 THEN 0 ELSE Len(split(SubSeq(lhs, 2, Len(lhs) - 1), <<",">>))
  ELSE 1

\* the operand count a non-empty signature stands for: with an arrow, its
\* parameter types and one operand for the result; without one, its one type
\* (the result of now, the parameter of del)
signature_operands(sig) ==
  LET arrow == find(sig, <<"-",">">>)
  IN IF arrow = -1 THEN 1
     ELSE parameter_types(SubSeq(sig, 1, arrow)) + 1

\* the positions of the entries of the table with a non-empty signature
signed_entries == {k \in 1..Len(opcodes) : opcodes[k][3] # << >>}

\* the operand counts the signatures of the table stand for
signature_counts ==
  list([k \in 1..Len(opcodes) |->
         IF k \in signed_entries THEN signature_operands(opcodes[k][3]) ELSE 0])

\* the handler reads code[p + 1] .. code[p + n] and advances by 1 + n
reads_operands(handler, n) ==
  /\ ~handler.halt
  /\ handler.operands = list([a \in 1..n |-> a])
  /\ handler.advance = 1 + n

\* C21: in the opcode table the operand count of every entry with a
\* non-empty signature is the one its signature stands for: the number of
\* parameter types plus one result operand when the signature has an arrow or
\* is a bare result type (now), and the number of parameter types when it has
\* no result (del); the handlers generated for it, under the label and under
\* the case, read exactly that many operand words, code[p + 1] ..
\* code[p + operand-count], and advance the pointer by 1 + operand-count.
C21_OperandCount ==
  (chain.table = opcodes /\ state_of("dispatch.h") = "closed") =>
    \A k \in signed_entries :
      /\ opcodes[k][4] = signature_counts[k]
      /\ reads_operands(chain.files["dispatch.h"].body.labels[k], signature_counts[k])
      /\ reads_operands(chain.files["dispatch.h"].body.cases[k], signature_counts[k])

\* DispatchWriter wrote the handlers of the table of the generator: those of
\* now (a bare result), of del (a bare parameter) and of a binary operator
C21_Witness ==
  /\ chain.table = opcodes
  /\ state_of("dispatch.h") = "closed"
  /\ \E k \in signed_entries :
       /\ opcodes[k] = <<<<"n","o","w">>, <<"n","o","w">>, <<"T","i","m","e","s","t","a","m","p">>, 1>>
       /\ chain.files["dispatch.h"].body.labels[k].advance = 2
  /\ \E k \in signed_entries :
       /\ opcodes[k] = <<<< >>, <<"d","e","l">>, <<"I","n","t","6","4">>, 1>>
       /\ chain.files["dispatch.h"].body.cases[k].operands = <<1>>
  /\ \E k \in signed_entries :
       /\ opcodes[k] = <<<<"+">>, <<"a","d","d">>, <<"(","I","n","t","6","4",",","I","n","t","6","4",")","-",">","I","n","t","6","4">>, 3>>
       /\ chain.files["dispatch.h"].body.labels[k].operands = <<1, 2, 3>>
       /\ chain.files["dispatch.h"].body.labels[k].advance = 4

====
